---- MODULE Spec2Model ----
(***************************************************************************)
(* Request processing pipeline of the Smart University Admin backend:      *)
(* the result caches (SemanticCache, SimpleCache, CachingMiddleware), the   *)
(* SQL safety validator and the streaming / blocking query endpoints.       *)
(*                                                                          *)
(* Text is modelled as a sequence of one-character strings, so that         *)
(* lower(), upper(), strip() and substring search are computed and not      *)
(* assumed.  Each object is exercised by a specification of its own.        *)
(***************************************************************************)
EXTENDS Integers, Sequences, FiniteSets, TLC

VARIABLES
    impl,            \* the cache class the run exercises
    deps,            \* DEPS_AVAILABLE: sentence-transformers and faiss import
    cache,           \* SemanticCache.cache, an OrderedDict, oldest entry first
    index,           \* SemanticCache.index, the FAISS inner-product index
    id_to_question,  \* SemanticCache.id_to_question
    current_id,      \* SemanticCache.current_id
    used,            \* keys of SemanticCache.cache, least recently returned
                     \* or inserted first (history, not program state)
    simple_cache,    \* SimpleCache.cache
    exact_cache,     \* CachingMiddleware.exact_cache
    hits,            \* CachingMiddleware.hits
    misses,          \* CachingMiddleware.misses
    total_time_saved,\* CachingMiddleware.total_time_saved
    last,            \* the operation performed last and its arguments
    ret,             \* the value the last operation returned
    raised,          \* the exception the last operation raised, or "none"
    sql_text,        \* the text handed to SQLValidator.is_safe_query
    verdict,         \* what is_safe_query returned for it
    requests,        \* the requests of the two query endpoints, each with its
                     \* position in the handler and its local variables
    intact,          \* requests answered with a result whose cache entry has
                     \* not been cleared, evicted or replaced since (history)
    optimizer,       \* the schema linker object and the call made on it
    service          \* one call of LLMService: the provider's answer, the
                     \* position of the generator and what it has yielded

semanticVars == <<deps, cache, index, id_to_question, current_id, used>>
simpleVars == <<simple_cache>>
middlewareVars == <<exact_cache, hits, misses, total_time_saved>>
callVars == <<last, ret, raised>>
validatorVars == <<sql_text, verdict>>
pipelineVars == <<requests, intact>>
linkerVars == <<optimizer>>
serviceVars == <<service>>
vars == <<impl, semanticVars, simpleVars, middlewareVars, callVars, validatorVars,
          pipelineVars, linkerVars, serviceVars>>

(***************************************************************************)
(* Bounds of the model.                                                     *)
(***************************************************************************)
MaxSize == 2      \* max_size of every cache (100 and 200 in the program)
MaxQLen == 2      \* most letters of a question
MaxLookups == 2   \* most lookups the middleware counts between two clears
MaxFragments == 2 \* most pieces of a validated SQL text
MaxRequests == 2  \* requests submitted to the query endpoints
MaxTokens == 1    \* most token chunks of one provider stream
MaxWords == 2     \* most words of a question handed to the schema linker
MaxLines == 2     \* most lines of one provider answer
MaxPieces == 3    \* most pieces of a text handed to _clean_sql
MaxIndex == MaxSize + 1     \* most vectors ever added to the FAISS index

(***************************************************************************)
(* Text.                                                                    *)
(***************************************************************************)
UpperLetters == <<"A","B","C","D","E","F","G","H","I","J","K","L","M",
                  "N","O","P","Q","R","S","T","U","V","W","X","Y","Z">>
LowerLetters == <<"a","b","c","d","e","f","g","h","i","j","k","l","m",
                  "n","o","p","q","r","s","t","u","v","w","x","y","z">>

Whitespace == {" ", "\t", "\n"}
RegexSpace == Whitespace       \* the characters \s matches

\* str.lower() on one character
LowerChar(c) ==
    IF \E i \in 1..26 : UpperLetters[i] = c
    THEN LowerLetters[CHOOSE i \in 1..26 : UpperLetters[i] = c]
    ELSE c

\* str.upper() on one character
UpperChar(c) ==
    IF \E i \in 1..26 : LowerLetters[i] = c
    THEN UpperLetters[CHOOSE i \in 1..26 : LowerLetters[i] = c]
    ELSE c

Lower(s) == [i \in 1..Len(s) |-> LowerChar(s[i])]
Upper(s) == [i \in 1..Len(s) |-> UpperChar(s[i])]

RECURSIVE LStrip(_)
LStrip(s) == IF s # <<>> /\ Head(s) \in Whitespace THEN LStrip(Tail(s)) ELSE s

RECURSIVE RStrip(_)
RStrip(s) ==
    IF s # <<>> /\ s[Len(s)] \in Whitespace
    THEN RStrip(SubSeq(s, 1, Len(s) - 1))
    ELSE s

\* str.strip()
Strip(s) == RStrip(LStrip(s))

\* a key that keeps the letter case of the question
NormalizeQuestionKeepCase(q) == Strip(q)

\* question.lower().strip(), the exact-match key of SemanticCache and SimpleCache
NormalizeQuestion(q) == Strip(Lower(q))

\* the questions submitted: runs of one letter, each also in upper case and
\* with a leading or a trailing blank
LetterStrings == {[i \in 1..k |-> "b"] : k \in 0..MaxQLen}
Variants(s) == {s, Upper(s), <<" ">> \o s, s \o <<" ">>}
Questions == UNION {Variants(s) : s \in LetterStrings}
\* a generated query together with the rows its execution returned
Payloads == {[sql |-> "s1", results |-> "r1"], [sql |-> "s2", results |-> "r2"]}

None == "None"
NoneSeq == <<"None">>      \* None where a text or a list is expected
Absent == << <<"absent">> >> \* an attribute __init__ never assigned
AbsentId == -1             \* current_id when __init__ never assigned it
NoneRet == [none |-> TRUE] \* a call that returned None
IntRet(n) == [value |-> n]

(***************************************************************************)
(* Embeddings.  SentenceTransformer.encode is an opaque deterministic       *)
(* provider; here it maps a text to an integer vector by its letters.       *)
(* Vectors are normalized to length Scale, and a cosine similarity is the   *)
(* inner product of two normalized vectors, kept in hundredths.             *)
(***************************************************************************)
Scale == 5
SimilarityThreshold == 90     \* similarity_threshold = 0.90, in hundredths

Letters(q) == SelectSeq(Lower(q), LAMBDA c : c \notin Whitespace)

Directions == << <<0, 5>>, <<8, 6>>, <<3, 4>>, <<10, 0>> >>

ModelEncode(q) ==
    LET n == Len(Letters(q)) IN
    IF n = 0 THEN <<0, 0>> ELSE Directions[(n % Len(Directions)) + 1]

Norm(v) == CHOOSE n \in 0..(v[1] + v[2]) : n * n = v[1] * v[1] + v[2] * v[2]

NormalizeVector(v) ==
    LET norm == Norm(v) IN
    IF norm = 0 THEN v
    ELSE <<(v[1] * Scale) \div norm, (v[2] * Scale) \div norm>>

GetEmbedding(q) == IF ~deps THEN NoneSeq ELSE NormalizeVector(ModelEncode(q))

Dot(u, v) == u[1] * v[1] + u[2] * v[2]

\* inner product of two normalized vectors, in hundredths
Similarity(u, v) == (Dot(u, v) * 100) \div (Scale * Scale)

\* faiss IndexFlatIP.search(k=1): the ids of largest inner product
Nearest(e) ==
    {i \in 1..Len(index) :
        \A j \in 1..Len(index) : Dot(e, index[j]) <= Dot(e, index[i])}

(***************************************************************************)
(* OrderedDict helpers.                                                     *)
(***************************************************************************)
Keys(d) == {d[i].key : i \in 1..Len(d)}
Pos(d, k) == CHOOSE i \in 1..Len(d) : d[i].key = k
Lookup(d, k) == d[Pos(d, k)]
Remove(d, k) == SelectSeq(d, LAMBDA e : e.key # k)
MoveToEnd(d, k) == Append(Remove(d, k), Lookup(d, k))
\* an eviction that waits until the dictionary is over its capacity
EvictOldestWhenOver(d) == IF Len(d) > MaxSize THEN Tail(d) ELSE d

\* if len(d) >= max_size: drop the first (oldest) item
EvictOldest(d) == IF Len(d) >= MaxSize THEN Tail(d) ELSE d

\* d[k] = e : an existing key keeps its position, a new key goes last
Assign(d, k, e) ==
    IF k \in Keys(d)
    THEN [i \in 1..Len(d) |-> IF d[i].key = k THEN e ELSE d[i]]
    ELSE Append(d, e)

(***************************************************************************)
(* Calls: what a run records about the operation performed last.           *)
(***************************************************************************)
NoArgs(op) ==
    [op |-> op, question |-> NoneSeq, schema |-> <<>>, sql |-> None,
     results |-> None]


(***************************************************************************)
(* SemanticCache (semantic_cache.py).                                       *)
(***************************************************************************)
StoredEntry(k, sql, results) ==
    [key |-> k, sql |-> sql, results |-> results,
     cached |-> TRUE, cache_type |-> "stored"]

\* result = self.cache[k].copy() with cached and cache_type set
ExactHit(e) ==
    [sql |-> e.sql, results |-> e.results, cached |-> TRUE, cache_type |-> "exact"]

\* the same with cache_type "semantic" and similarity_score
SemanticHit(e, score) ==
    [sql |-> e.sql, results |-> e.results, cached |-> TRUE,
     cache_type |-> "semantic", similarity_score |-> score]

\* a semantic lookup that accepts the nearest id whatever its similarity
SemanticTargetAnySimilarity(q, idx) ==
    LET similar_question == id_to_question[idx] IN
    IF similar_question # <<>> /\ similar_question \in Keys(cache)
    THEN similar_question
    ELSE NoneSeq

\* the key a semantic lookup of q resolves to through the id idx, or NoneSeq
\* a lookup that answers a stale id with the oldest entry of the cache
SemanticTargetStaleFallback(q, idx) ==
    LET embedding == GetEmbedding(q)
        similarity == Similarity(embedding, index[idx])
        similar_question == id_to_question[idx]
    IN  IF similarity >= SimilarityThreshold /\ similar_question # <<>>
        THEN IF similar_question \in Keys(cache) THEN similar_question
             ELSE IF cache # <<>> THEN cache[1].key ELSE NoneSeq
        ELSE NoneSeq

SemanticTarget(q, idx) ==
    LET embedding == GetEmbedding(q)
        similarity == Similarity(embedding, index[idx])
        similar_question == id_to_question[idx]
    IN  IF /\ similarity >= SimilarityThreshold
           /\ similar_question # <<>>
           /\ similar_question \in Keys(cache)
        THEN similar_question
        ELSE NoneSeq

\* a call on the SemanticCache leaves the other objects alone
SCCall == impl = "SemanticCache" /\ UNCHANGED <<impl, simpleVars, middlewareVars, validatorVars, pipelineVars, linkerVars, serviceVars>>

SCInit ==
    /\ cache = <<>>
    /\ index = IF deps THEN <<>> ELSE NoneSeq
    /\ id_to_question = IF deps THEN <<>> ELSE Absent
    /\ current_id = IF deps THEN 0 ELSE AbsentId
    /\ used = <<>>

\* SemanticCache.get: the values it may return, each with the key of the
\* entry it returns (a tie of the index search may resolve to any nearest id)
SCGetOutcomes(q) ==
    LET question_lower == NormalizeQuestion(q) IN
    IF question_lower \in Keys(cache)
    THEN {[ret |-> ExactHit(Lookup(cache, question_lower)),
           key |-> question_lower]}
    ELSE IF deps /\ Len(index) > 0
    THEN {LET target == SemanticTarget(q, idx) IN
          IF target = NoneSeq
          THEN [ret |-> NoneRet, key |-> NoneSeq]
          ELSE [ret |-> SemanticHit(Lookup(cache, target),
                                    Similarity(GetEmbedding(q), index[idx])),
                key |-> target] : idx \in Nearest(GetEmbedding(q))}
    ELSE {[ret |-> NoneRet, key |-> NoneSeq]}

SCGet(q) ==
    LET question_lower == NormalizeQuestion(q) IN
    /\ SCCall
    /\ last' = [NoArgs("get") EXCEPT !.question = q]
    /\ raised' = "none"
    /\ \E o \in SCGetOutcomes(q) :
         /\ ret' = o.ret
         /\ used' = IF o.key = NoneSeq THEN used
                    ELSE Append(SelectSeq(used, LAMBDA k : k # o.key), o.key)
    /\ cache' = IF question_lower \in Keys(cache)
                THEN MoveToEnd(cache, question_lower)
                ELSE cache
    /\ UNCHANGED <<deps, index, id_to_question, current_id>>

\* a store that adds its vector under the id of the store before it
SCSetReusesId(q, sql, results) ==
    LET question_lower == NormalizeQuestion(q)
        full == Len(cache) >= MaxSize
        evicted == EvictOldest(cache)
    IN
    /\ SCCall
    /\ deps => current_id < MaxIndex
    /\ last' = [NoArgs("set") EXCEPT !.question = q, !.sql = sql,
                                     !.results = results]
    /\ ret' = NoneRet
    /\ IF full /\ cache = <<>>
       THEN \* next(iter(self.cache)) on an empty OrderedDict
            /\ raised' = "StopIteration"
            /\ UNCHANGED <<cache, index, id_to_question, current_id, used>>
       ELSE /\ raised' = "none"
            /\ cache' = Assign(evicted, question_lower,
                               StoredEntry(question_lower, sql, results))
            /\ used' = IF question_lower \in Keys(evicted)
                       THEN SelectSeq(used, LAMBDA k : k \in Keys(evicted))
                       ELSE Append(SelectSeq(used, LAMBDA k : k \in Keys(evicted)),
                                   question_lower)
            /\ IF deps
               THEN /\ index' = Append(index, GetEmbedding(q))
                    /\ id_to_question' = Append(id_to_question, question_lower)
                    /\ current_id' = current_id
               ELSE UNCHANGED <<index, id_to_question, current_id>>
    /\ UNCHANGED deps

SCSet(q, sql, results) ==
    LET question_lower == NormalizeQuestion(q)
        full == Len(cache) >= MaxSize
        evicted == EvictOldest(cache)
    IN
    /\ SCCall
    /\ deps => current_id < MaxIndex
    /\ last' = [NoArgs("set") EXCEPT !.question = q, !.sql = sql,
                                     !.results = results]
    /\ ret' = NoneRet
    /\ IF full /\ cache = <<>>
       THEN \* next(iter(self.cache)) on an empty OrderedDict
            /\ raised' = "StopIteration"
            /\ UNCHANGED <<cache, index, id_to_question, current_id, used>>
       ELSE /\ raised' = "none"
            /\ cache' = Assign(evicted, question_lower,
                               StoredEntry(question_lower, sql, results))
            /\ used' = IF question_lower \in Keys(evicted)
                       THEN SelectSeq(used, LAMBDA k : k \in Keys(evicted))
                       ELSE Append(SelectSeq(used, LAMBDA k : k \in Keys(evicted)),
                                   question_lower)
            /\ IF deps
               THEN /\ index' = Append(index, GetEmbedding(q))
                    /\ id_to_question' = Append(id_to_question, question_lower)
                    /\ current_id' = current_id + 1
               ELSE UNCHANGED <<index, id_to_question, current_id>>
    /\ UNCHANGED deps

\* a clear that leaves the vectors in the index
SCClearKeepsIndex ==
    /\ SCCall
    /\ last' = NoArgs("clear")
    /\ ret' = NoneRet
    /\ cache' = <<>>
    /\ used' = <<>>
    /\ index' = index
    /\ IF id_to_question = Absent
       THEN /\ raised' = "AttributeError"
            /\ UNCHANGED <<id_to_question, current_id>>
       ELSE /\ raised' = "none"
            /\ id_to_question' = <<>>
            /\ current_id' = 0
    /\ UNCHANGED deps

SCClear ==
    /\ SCCall
    /\ last' = NoArgs("clear")
    /\ ret' = NoneRet
    /\ cache' = <<>>
    /\ used' = <<>>
    /\ index' = IF deps THEN <<>> ELSE index
    /\ IF id_to_question = Absent
       THEN \* self.id_to_question.clear() on an attribute never assigned
            /\ raised' = "AttributeError"
            /\ UNCHANGED <<id_to_question, current_id>>
       ELSE /\ raised' = "none"
            /\ id_to_question' = <<>>
            /\ current_id' = 0
    /\ UNCHANGED deps

SCSize ==
    /\ SCCall
    /\ last' = NoArgs("size")
    /\ ret' = IntRet(Len(cache))
    /\ raised' = "none"
    /\ UNCHANGED semanticVars

SCGetStats ==
    /\ SCCall
    /\ last' = NoArgs("get_stats")
    /\ IF id_to_question = Absent
       THEN /\ raised' = "AttributeError"
            /\ ret' = NoneRet
       ELSE /\ raised' = "none"
            /\ ret' = [size |-> Len(cache), max_size |-> MaxSize,
                       semantic_enabled |-> deps,
                       similarity_threshold |-> SimilarityThreshold,
                       indexed_questions |-> Len(id_to_question)]
    /\ UNCHANGED semanticVars

SCNext ==
    \/ \E q \in Questions : SCGet(q)
    \/ \E q \in Questions, p \in Payloads : SCSet(q, p.sql, p.results)
    \/ SCClear
    \/ SCSize
    \/ SCGetStats

(***************************************************************************)
(* SimpleCache (cache.py).                                                  *)
(***************************************************************************)
SimpleEntry(k, sql, results) ==
    [key |-> k, sql |-> sql, results |-> results, cached |-> TRUE]

SimpleCall == impl = "SimpleCache" /\ UNCHANGED <<impl, semanticVars, middlewareVars, validatorVars, pipelineVars, linkerVars, serviceVars>>

SimpleInit == simple_cache = <<>>

\* SimpleCache.get: the value it returns
SimpleGetResult(q) ==
    LET question_lower == NormalizeQuestion(q) IN
    IF question_lower \in Keys(simple_cache)
    THEN LET e == Lookup(simple_cache, question_lower) IN
         [sql |-> e.sql, results |-> e.results, cached |-> e.cached]
    ELSE NoneRet

SimpleGet(q) ==
    LET question_lower == NormalizeQuestion(q) IN
    /\ SimpleCall
    /\ last' = [NoArgs("simple_get") EXCEPT !.question = q]
    /\ raised' = "none"
    /\ ret' = SimpleGetResult(q)
    /\ simple_cache' = IF question_lower \in Keys(simple_cache)
                       THEN MoveToEnd(simple_cache, question_lower)
                       ELSE simple_cache

SimpleSet(q, sql, results) ==
    LET question_lower == NormalizeQuestion(q)
        full == Len(simple_cache) >= MaxSize
    IN
    /\ SimpleCall
    /\ last' = [NoArgs("simple_set") EXCEPT !.question = q, !.sql = sql,
                                            !.results = results]
    /\ ret' = NoneRet
    /\ IF full /\ simple_cache = <<>>
       THEN \* popitem(last=False) on an empty OrderedDict
            /\ raised' = "KeyError"
            /\ simple_cache' = simple_cache
       ELSE /\ raised' = "none"
            /\ simple_cache' =
                 Assign(EvictOldest(simple_cache),
                        question_lower, SimpleEntry(question_lower, sql, results))

SimpleClear ==
    /\ SimpleCall
    /\ last' = NoArgs("simple_clear")
    /\ ret' = NoneRet
    /\ raised' = "none"
    /\ simple_cache' = <<>>

SimpleSize ==
    /\ SimpleCall
    /\ last' = NoArgs("simple_size")
    /\ ret' = IntRet(Len(simple_cache))
    /\ raised' = "none"
    /\ simple_cache' = simple_cache

SimpleNext ==
    \/ \E q \in Questions : SimpleGet(q)
    \/ \E q \in Questions, p \in Payloads : SimpleSet(q, p.sql, p.results)
    \/ SimpleClear
    \/ SimpleSize

(***************************************************************************)
(* Schema text.  A text is a sequence of blocks, each the characters of one *)
(* piece the linker appends; chars is the number of characters of the       *)
(* block that the text holds.                                               *)
(***************************************************************************)
TableChars ==
    [students |-> 221, departments |-> 120, courses |-> 156, attendance |-> 106,
     grades |-> 159, hostels |-> 109, placements |-> 157, enrollments |-> 79]

\* "Database Schema:\n\n"
SchemaHeader == [text |-> "Database Schema:", chars |-> 18]
\* "Table: {table}\nColumns: {', '.join(columns)}\n\n"
TableBlock(t) == [text |-> t, chars |-> TableChars[t]]
\* "\nRelationships:\n"
RelationshipsHeader == [text |-> "Relationships:", chars |-> 16]

\* schema[:n]
RECURSIVE TakeChars(_, _)
TakeChars(text, n) ==
    IF text = <<>> \/ n = 0 THEN <<>>
    ELSE IF Head(text).chars <= n
         THEN <<Head(text)>> \o TakeChars(Tail(text), n - Head(text).chars)
         ELSE <<[Head(text) EXCEPT !.chars = n]>>

(***************************************************************************)
(* CachingMiddleware (llm_middleware.py).                                   *)
(***************************************************************************)
KeySchemaChars == 500

\* sha256 of "{question.lower().strip()}:{schema[:500]}": the digest stands
\* for the string it is computed from
ComputeCacheKey(question, schema) ==
    NormalizeQuestion(question) \o <<":">> \o TakeChars(schema, KeySchemaChars)

MiddlewareEntry(k, sql, results) ==
    [key |-> k, sql |-> sql, results |-> results, timestamp |-> "time"]

MwCall == impl = "CachingMiddleware" /\ UNCHANGED <<impl, semanticVars, simpleVars, validatorVars, pipelineVars, linkerVars, serviceVars>>

MwInit ==
    /\ exact_cache = <<>>
    /\ hits = 0
    /\ misses = 0
    /\ total_time_saved = 0

\* CachingMiddleware.before_request: the value it returns
BeforeRequestResult(question, schema) ==
    LET cache_key == ComputeCacheKey(question, schema) IN
    IF cache_key \in Keys(exact_cache)
    THEN LET cached_data == Lookup(exact_cache, cache_key) IN
         [sql |-> cached_data.sql, results |-> cached_data.results,
          timestamp |-> cached_data.timestamp,
          cached |-> TRUE, cache_type |-> "exact"]
    ELSE NoneRet

\* a lookup that counts every call as a miss
BeforeRequestCountsMiss(question, schema) ==
    LET cache_key == ComputeCacheKey(question, schema) IN
    /\ misses' = misses + 1
    /\ hits' = hits
    /\ total_time_saved' = total_time_saved
    /\ exact_cache' = IF cache_key \in Keys(exact_cache)
                      THEN MoveToEnd(exact_cache, cache_key) ELSE exact_cache

\* a lookup that writes the flag of a hit into the entry it found
BeforeRequestTagsEntry(question, schema) ==
    LET cache_key == ComputeCacheKey(question, schema)
        tagged == [i \in 1..Len(exact_cache) |->
                     IF exact_cache[i].key = cache_key
                     THEN [f \in DOMAIN exact_cache[i] \cup {"cached"} |->
                             IF f = "cached" THEN TRUE ELSE exact_cache[i][f]]
                     ELSE exact_cache[i]]
    IN
    IF cache_key \in Keys(exact_cache)
    THEN /\ hits' = hits + 1
         /\ exact_cache' = MoveToEnd(tagged, cache_key)
         /\ total_time_saved' = total_time_saved + 2
         /\ misses' = misses
    ELSE /\ misses' = misses + 1
         /\ UNCHANGED <<exact_cache, hits, total_time_saved>>

\* CachingMiddleware.before_request: its effect on the middleware
BeforeRequest(question, schema) ==
    LET cache_key == ComputeCacheKey(question, schema) IN
    IF cache_key \in Keys(exact_cache)
    THEN /\ hits' = hits + 1
         /\ exact_cache' = MoveToEnd(exact_cache, cache_key)
         /\ total_time_saved' = total_time_saved + 2
         /\ misses' = misses
    ELSE /\ misses' = misses + 1
         /\ UNCHANGED <<exact_cache, hits, total_time_saved>>

\* CachingMiddleware.after_response: its effect on the middleware
AfterResponse(question, schema, sql, results) ==
    LET cache_key == ComputeCacheKey(question, schema) IN
    /\ exact_cache' =
         Assign(EvictOldest(exact_cache),
                cache_key, MiddlewareEntry(cache_key, sql, results))
    /\ UNCHANGED <<hits, misses, total_time_saved>>

\* CachingMiddleware.hit_rate: the quotient hits / total, kept as a fraction
HitRate ==
    LET total == hits + misses IN
    IF total > 0 THEN [num |-> hits, den |-> total] ELSE [num |-> 0, den |-> 1]

\* f"{rate:.1%}": the rate in tenths of a percent, rounded half to even
FormatPercent(rate) ==
    LET q == (rate.num * 1000) \div rate.den
        rem == (rate.num * 1000) % rate.den
    IN  IF 2 * rem > rate.den \/ (2 * rem = rate.den /\ q % 2 = 1)
        THEN q + 1 ELSE q

MwBeforeRequest(q, schema) ==
    /\ MwCall
    /\ hits + misses < MaxLookups
    /\ last' = [NoArgs("before_request") EXCEPT !.question = q, !.schema = schema]
    /\ raised' = "none"
    /\ ret' = BeforeRequestResult(q, schema)
    /\ BeforeRequest(q, schema)

MwAfterResponse(q, schema, sql, results) ==
    /\ MwCall
    /\ last' = [NoArgs("after_response") EXCEPT !.question = q, !.schema = schema,
                                                !.sql = sql, !.results = results]
    /\ ret' = NoneRet
    /\ IF Len(exact_cache) >= MaxSize /\ exact_cache = <<>>
       THEN \* next(iter(self.exact_cache)) on an empty OrderedDict
            /\ raised' = "StopIteration"
            /\ UNCHANGED middlewareVars
       ELSE /\ raised' = "none"
            /\ AfterResponse(q, schema, sql, results)

MwClear ==
    /\ MwCall
    /\ last' = NoArgs("mw_clear")
    /\ ret' = NoneRet
    /\ raised' = "none"
    /\ exact_cache' = <<>>
    /\ hits' = 0
    /\ misses' = 0
    /\ total_time_saved' = 0

MwStats ==
    /\ MwCall
    /\ last' = NoArgs("stats")
    /\ raised' = "none"
    /\ ret' = [size |-> Len(exact_cache), max_size |-> MaxSize, hits |-> hits,
               misses |-> misses, hit_rate |-> FormatPercent(HitRate),
               time_saved_seconds |-> total_time_saved]
    /\ UNCHANGED middlewareVars

\* schema texts handed to the middleware: one within 500 characters, one
\* longer
Schemas ==
    {<<SchemaHeader, TableBlock("students"), RelationshipsHeader>>,
     <<SchemaHeader, TableBlock("students"), TableBlock("departments"),
       TableBlock("courses"), TableBlock("grades"), RelationshipsHeader>>}

MwNext ==
    \/ \E q \in Questions, schema \in Schemas : MwBeforeRequest(q, schema)
    \/ \E q \in Questions, schema \in Schemas, p \in Payloads :
           MwAfterResponse(q, schema, p.sql, p.results)
    \/ MwClear
    \/ MwStats

(***************************************************************************)
(* SQLValidator (sql_validator.py).                                        *)
(***************************************************************************)
\* s[i..] starts with sub
StartsWithAt(s, i, sub) ==
    /\ i + Len(sub) - 1 <= Len(s)
    /\ SubSeq(s, i, i + Len(sub) - 1) = sub

\* sub in s
Contains(s, sub) == \E i \in 1..(Len(s) + 1) : StartsWithAt(s, i, sub)

\* re.search(head \s* tail, s)
ContainsSpaced(s, head, tail) ==
    \E i \in 1..Len(s), j \in 1..(Len(s) + 1) :
        /\ StartsWithAt(s, i, head)
        /\ j >= i + Len(head)
        /\ \A k \in (i + Len(head))..(j - 1) : s[k] \in RegexSpace
        /\ StartsWithAt(s, j, tail)

DANGEROUS_KEYWORDS ==
    <<<<"D", "R", "O", "P">>,
      <<"D", "E", "L", "E", "T", "E">>,
      <<"T", "R", "U", "N", "C", "A", "T", "E">>,
      <<"A", "L", "T", "E", "R">>,
      <<"C", "R", "E", "A", "T", "E">>,
      <<"I", "N", "S", "E", "R", "T">>,
      <<"U", "P", "D", "A", "T", "E">>,
      <<"G", "R", "A", "N", "T">>,
      <<"R", "E", "V", "O", "K", "E">>>>

\* the keyword as the reason of the validator names it
KeywordName(k) ==
    CASE k = 1 -> "DROP" [] k = 2 -> "DELETE" [] k = 3 -> "TRUNCATE"
      [] k = 4 -> "ALTER" [] k = 5 -> "CREATE" [] k = 6 -> "INSERT"
      [] k = 7 -> "UPDATE" [] k = 8 -> "GRANT" [] k = 9 -> "REVOKE"

\* INJECTION_PATTERNS, searched with re.IGNORECASE: the text is compared in
\* upper case
MatchesInjectionPattern(sql) ==
    LET u == Upper(sql) IN
    \/ ContainsSpaced(u, <<";">>, <<"D", "R", "O", "P">>)
    \/ ContainsSpaced(u, <<";">>, <<"D", "E", "L", "E", "T", "E">>)
    \/ Contains(u, <<"-", "-">>)
    \/ Contains(u, <<"/", "*">>)
    \/ Contains(u, <<"*", "/">>)
    \/ Contains(u, <<"X", "P", "_">>)
    \/ Contains(u, <<"S", "P", "_">>)
    \/ ContainsSpaced(u, <<"E", "X", "E", "C">>, <<"(">>)

Verdict(safe, reason, keyword) ==
    [safe |-> safe, reason |-> reason, keyword |-> keyword]

\* a validator without the must-start-with-SELECT rule
IsSafeQueryAnyStatement(sql) ==
    LET sql_upper == Upper(sql)
        found == {k \in 1..Len(DANGEROUS_KEYWORDS) :
                     Contains(sql_upper, DANGEROUS_KEYWORDS[k])}
    IN  IF found # {}
        THEN Verdict(FALSE, "Dangerous keyword detected",
                     KeywordName(CHOOSE k \in found : \A j \in found : k <= j))
        ELSE IF MatchesInjectionPattern(sql)
        THEN Verdict(FALSE, "Potential SQL injection detected", "")
        ELSE Verdict(TRUE, "Query is safe", "")

\* a validator that looks for injection patterns before dangerous keywords
IsSafeQueryPatternsFirst(sql) ==
    LET sql_upper == Upper(sql)
        found == {k \in 1..Len(DANGEROUS_KEYWORDS) :
                     Contains(sql_upper, DANGEROUS_KEYWORDS[k])}
    IN  IF MatchesInjectionPattern(sql)
        THEN Verdict(FALSE, "Potential SQL injection detected", "")
        ELSE IF found # {}
        THEN Verdict(FALSE, "Dangerous keyword detected",
                     KeywordName(CHOOSE k \in found : \A j \in found : k <= j))
        ELSE IF ~StartsWithAt(Strip(sql_upper), 1, <<"S", "E", "L", "E", "C", "T">>)
        THEN Verdict(FALSE, "Only SELECT queries are allowed", "")
        ELSE Verdict(TRUE, "Query is safe", "")

\* SQLValidator.is_safe_query
IsSafeQuery(sql) ==
    LET sql_upper == Upper(sql)
        found == {k \in 1..Len(DANGEROUS_KEYWORDS) :
                     Contains(sql_upper, DANGEROUS_KEYWORDS[k])}
    IN  IF found # {}
        THEN Verdict(FALSE, "Dangerous keyword detected",
                     KeywordName(CHOOSE k \in found : \A j \in found : k <= j))
        ELSE IF MatchesInjectionPattern(sql)
        THEN Verdict(FALSE, "Potential SQL injection detected", "")
        ELSE IF ~StartsWithAt(Strip(sql_upper), 1, <<"S", "E", "L", "E", "C", "T">>)
        THEN Verdict(FALSE, "Only SELECT queries are allowed", "")
        ELSE Verdict(TRUE, "Query is safe", "")

\* pieces of SQL text the validated queries are put together from

\* the query "SELECT * FROM students"
SelectAllStudents ==
    <<"S", "E", "L", "E", "C", "T", " ", "*", " ", "F", "R", "O", "M",
      " ", "s", "t", "u", "d", "e", "n", "t", "s">>

\* "; DROP TABLE students"
StackedDrop ==
    <<";", " ", "D", "R", "O", "P", " ", "T", "A", "B", "L", "E", " ",
      "s", "t", "u", "d", "e", "n", "t", "s">>

\* "UPDATE students SET gpa=4"
UpdateGpa ==
    <<"U", "P", "D", "A", "T", "E", " ", "s", "t", "u", "d", "e", "n",
      "t", "s", " ", "S", "E", "T", " ", "g", "p", "a", "=", "4">>

\* "select name from students"
SelectNames ==
    <<"s", "e", "l", "e", "c", "t", " ", "n", "a", "m", "e", " ", "f",
      "r", "o", "m", " ", "s", "t", "u", "d", "e", "n", "t", "s">>

\* " -- comment"
TrailingComment ==
    <<" ", "-", "-", " ", "c", "o", "m", "m", "e", "n", "t">>

\* " "
Blank ==
    <<" ">>

\* " WHERE x=exec (1)"
InlineExec ==
    <<" ", "W", "H", "E", "R", "E", " ", "x", "=", "e", "x", "e", "c",
      " ", "(", "1", ")">>

\* a newline and "/* c */"
BlockComment ==
    <<"\n", "/", "*", " ", "c", " ", "*", "/">>

\* " ORDER BY created_at"
OrderByCreatedAt ==
    <<" ", "O", "R", "D", "E", "R", " ", "B", "Y", " ", "c", "r", "e",
      "a", "t", "e", "d", "_", "a", "t">>

\* "WITH t AS ("
WithClause ==
    <<"W", "I", "T", "H", " ", "t", " ", "A", "S", " ", "(">>

\* " xp_cmd"
ExtendedProcedure ==
    <<" ", "x", "p", "_", "c", "m", "d">>

Fragments ==
    {SelectAllStudents,
     StackedDrop,
     UpdateGpa,
     SelectNames,
     TrailingComment,
     Blank,
     InlineExec,
     BlockComment,
     OrderByCreatedAt,
     WithClause,
     ExtendedProcedure}


RECURSIVE Concatenations(_)
Concatenations(n) ==
    IF n = 0 THEN {<<>>}
    ELSE LET shorter == Concatenations(n - 1) IN
         shorter \cup {a \o f : a \in shorter, f \in Fragments}

SqlInputs == Concatenations(MaxFragments)

NoVerdict == Verdict(FALSE, "not validated", "")

ValidatorIdle ==
    /\ sql_text = <<>>
    /\ verdict = NoVerdict

ValidatorInit ==
    /\ sql_text \in SqlInputs
    /\ verdict = NoVerdict

Validate ==
    /\ verdict = NoVerdict
    /\ verdict' = IsSafeQuery(sql_text)
    /\ UNCHANGED <<sql_text, impl, semanticVars, simpleVars, middlewareVars, callVars,
                   pipelineVars, linkerVars, serviceVars>>

(***************************************************************************)
(* LLMService._clean_sql (llm_service.py).                                 *)
(***************************************************************************)
\* s.replace(sub, "")
RECURSIVE RemoveAll(_, _)
RemoveAll(s, sub) ==
    IF s = <<>> THEN <<>>
    ELSE IF StartsWithAt(s, 1, sub)
         THEN RemoveAll(SubSeq(s, Len(sub) + 1, Len(s)), sub)
         ELSE <<Head(s)>> \o RemoveAll(Tail(s), sub)

\* " ".join(s.split()) of a text without leading whitespace
RECURSIVE JoinWords(_)
JoinWords(s) ==
    IF s = <<>> THEN <<>>
    ELSE IF Head(s) \in Whitespace
         THEN <<" ">> \o JoinWords(LStrip(s))
         ELSE <<Head(s)>> \o JoinWords(Tail(s))

\* s.rstrip(c)
RECURSIVE RStripChar(_, _)
RStripChar(s, c) ==
    IF s # <<>> /\ s[Len(s)] = c
    THEN RStripChar(SubSeq(s, 1, Len(s) - 1), c)
    ELSE s

\* the character U+0060, which a TLA+ string cannot hold
Backtick == "U+0060"
CodeFence == <<Backtick, Backtick, Backtick>>
SqlCodeFence == CodeFence \o <<"s", "q", "l">>

CleanSql(sql) ==
    RStripChar(JoinWords(Strip(RemoveAll(RemoveAll(sql, SqlCodeFence), CodeFence))), ";")

\* texts the provider answers with: a fenced SELECT ending in a semicolon,
\* and a SELECT followed by a stacked DROP
FencedSelect ==
    SqlCodeFence \o <<"\n">> \o SelectAllStudents \o <<";", "\n">> \o CodeFence
RawSqls == {FencedSelect, SelectAllStudents \o StackedDrop}

(***************************************************************************)
(* The query endpoints (main.py): /api/query/stream and /api/query.  A     *)
(* request advances from one suspension point (a yield of an event, an     *)
(* await of the provider) to the next in one step; requests interleave at  *)
(* these points.                                                           *)
(***************************************************************************)
Requests == 1..MaxRequests

Unbound == <<"unbound">>     \* the local variable sql before its assignment
NoOutcome == [kind |-> "none"]
ErrorOutcome == [kind |-> "error"]
ResultOutcome(sql, results, cached) ==
    [kind |-> "result", sql |-> sql, results |-> results, cached |-> cached]

IdleRequest ==
    [mode |-> "none", pc |-> "idle", raw |-> <<>>, question |-> <<>>,
     schema_text |-> <<>>, sql |-> Unbound, tokens |-> 0, events |-> <<>>,
     \* the stages the progress events of the request name
     stages |-> <<>>,
     outcome |-> NoOutcome,
     \* history of the request, not program state
     generated |-> 0, validated |-> <<>>, executed |-> <<>>, stored |-> FALSE,
     started_after |-> {}, before |-> {}, provider_failed |-> FALSE,
     steps |-> <<>>,
     \* the status code of the response of /api/query, 0 while there is none
     http_status |-> 0]

\* questions submitted to the endpoints
PipelineQuestions == {<<" ">>, <<" ", "b">>, <<"b", "b">>}

\* what db.execute_query returns: rows of JSON values, or rows holding
\* date / Decimal values as psycopg2 delivers them for DATE and NUMERIC columns
ExecResults == {"rows", "rows_with_dates"}

\* json.dumps raises TypeError on date and Decimal values
JsonSerializable(results) == results # "rows_with_dates"

\* the verdict the endpoints act on
ValidatedSafeAlways(sql) == TRUE
\* the SQL texts an answer of the provider is cleaned to, and those of them
\* validate_sql accepts
CleanedSqls == {CleanSql(raw) : raw \in RawSqls} \cup {CleanSql(Strip(raw)) : raw \in RawSqls}
SafeSqls == {sql \in CleanedSqls : IsSafeQuery(sql).safe}
ValidatedSafe(sql) ==
    IF sql \in CleanedSqls THEN sql \in SafeSqls ELSE IsSafeQuery(sql).safe

Emit(rq, event) == [rq EXCEPT !.events = Append(@, event)]

\* a progress event, with the stage it names
Progress(rq, stage) == [Emit(rq, "progress") EXCEPT !.stages = Append(@, stage)]

\* an error event that is not followed by a return
TerminateStreamAndGoOn(rq, outcome) == [rq EXCEPT !.outcome = outcome, !.pc = "execution"]

\* the return that follows the error event of an unsafe query
TerminateStream(rq, outcome) ==
    [rq EXCEPT !.pc = "done", !.outcome = outcome, !.sql = Unbound, !.tokens = 0]

\* return after the terminal event / return of the response / raise: the
\* locals of the handler are gone
Terminate(rq, outcome) ==
    [rq EXCEPT !.pc = "done", !.outcome = outcome, !.sql = Unbound, !.tokens = 0]

StreamError(rq) == Terminate(Emit(rq, "error"), ErrorOutcome)

\* query_database returns its response
BlockingResponse(rq, outcome) == [Terminate(rq, outcome) EXCEPT !.http_status = 200]

\* an exception raised in the try block of query_database, an HTTPException
\* with a status of its own included, reaches `except Exception`, which
\* raises HTTPException(status_code=500)
BlockingError(rq, status) == [Terminate(rq, ErrorOutcome) EXCEPT !.http_status = 500]
StreamComplete(rq, sql, results, cached) ==
    Terminate(Emit(rq, "complete"), ResultOutcome(sql, results, cached))

\* the key a request's entry is stored under
RequestKey(rq) == ComputeCacheKey(rq.question, rq.schema_text)

PipelineCall ==
    /\ impl = "none"
    /\ UNCHANGED <<impl, semanticVars, simpleVars, callVars, validatorVars, linkerVars,
                   serviceVars>>

PipelineInit ==
    /\ requests = [r \in Requests |-> IdleRequest]
    /\ intact = {}

\* a client posts a question to one of the two endpoints
Submit(r, mode, q) ==
    /\ requests[r].pc = "idle"
    /\ \A o \in Requests : o < r => requests[o].pc # "idle"   \* numbered by arrival
    /\ requests' = [requests EXCEPT ![r] =
           [@ EXCEPT !.mode = mode, !.pc = "start", !.raw = q,
                     !.started_after = intact]]
    /\ UNCHANGED <<middlewareVars, intact>>
    /\ PipelineCall

\* vector_optimizer.get_relevant_tables: the selection is a function of the
\* lower-cased question and of the catalog; here a question of one letter
\* selects the students table and a longer one four tables
GetRelevantTables(question) ==
    CHOOSE s \in Schemas : (Len(Letters(question)) <= 1) <=> (Len(s) = 3)

\* the request once vector_optimizer.get_relevant_tables was called
LinkerCalled(rq) == [rq EXCEPT !.steps = Append(@, "schema_link")]

\* the request once vector_optimizer.get_relevant_tables has returned
Linked(rq) ==
    [LinkerCalled(rq) EXCEPT !.schema_text = GetRelevantTables(rq.question),
                             !.before = rq.started_after \cap intact]

\* the request once caching_middleware.before_request has returned
LookedUp(rq) == [rq EXCEPT !.steps = Append(@, "cache_lookup")]

\* the request once it has called the provider (stream_sql_generation or
\* generate_sql)
ProviderCalled(rq) == [rq EXCEPT !.steps = Append(@, "generate")]

\* caching_middleware.after_response, and the requests whose entry is still
\* the one in the cache after it
StoreStep(r, rq, results, succeeds) ==
    LET evicted == IF Len(exact_cache) >= MaxSize
                   THEN {exact_cache[1].key} ELSE {}
        gone == {o \in intact : RequestKey(requests[o]) \in evicted \cup {RequestKey(rq)}}
    IN  /\ AfterResponse(rq.question, rq.schema_text, rq.sql, results)
        /\ intact' = (intact \ gone) \cup (IF succeeds THEN {r} ELSE {})

\* a generator that yields the cache_check progress event before it looks at
\* the question
StreamStartWithoutCheck(r) ==
    LET rq == [requests[r] EXCEPT !.question = Strip(requests[r].raw)] IN
    /\ requests[r].pc = "start"
    /\ requests[r].mode = "stream"
    /\ requests' = [requests EXCEPT ![r] =
           [Progress(rq, "cache_check") EXCEPT !.pc = "cache_check"]]
    /\ UNCHANGED <<middlewareVars, intact>>
    /\ PipelineCall

\* generate_stream up to its first yield
StreamStart(r) ==
    LET rq == [requests[r] EXCEPT !.question = Strip(requests[r].raw)] IN
    /\ requests[r].pc = "start"
    /\ requests[r].mode = "stream"
    /\ requests' = [requests EXCEPT ![r] =
           IF rq.question = <<>>
           THEN StreamError(rq)
           ELSE [Progress(rq, "cache_check") EXCEPT !.pc = "cache_check"]]
    /\ UNCHANGED <<middlewareVars, intact>>
    /\ PipelineCall

\* generate_stream from the cache_check progress event to the next yield
StreamCacheCheck(r) ==
    /\ requests[r].pc = "cache_check"
    /\ \E linker_ok \in BOOLEAN :
         IF ~linker_ok
         THEN \* get_relevant_tables raises (the catalog cannot be loaded)
              /\ requests' = [requests EXCEPT ![r] = StreamError(LinkerCalled(@))]
              /\ UNCHANGED <<middlewareVars, intact>>
         ELSE LET rq == LookedUp(Linked(requests[r]))
                  cached_result == BeforeRequestResult(rq.question, rq.schema_text)
                  hit == cached_result # NoneRet
                  delivered == hit /\ JsonSerializable(cached_result.results)
              IN  /\ BeforeRequest(rq.question, rq.schema_text)
                  /\ requests' = [requests EXCEPT ![r] =
                         IF delivered
                         THEN StreamComplete(rq, cached_result.sql,
                                             cached_result.results, cached_result.cached)
                         ELSE IF hit
                         THEN StreamError(rq)    \* json.dumps raises
                         ELSE [Progress(rq, "schema") EXCEPT !.pc = "schema"]]
                  /\ intact' = IF delivered THEN intact \cup {r} ELSE intact
    /\ PipelineCall

\* generate_stream from the schema progress event to the generation one
StreamSchema(r) ==
    /\ requests[r].pc = "schema"
    /\ requests' = [requests EXCEPT ![r] =
           [ProviderCalled(Progress(@, "generation")) EXCEPT !.pc = "generating"]]
    /\ UNCHANGED <<middlewareVars, intact>>
    /\ PipelineCall

\* one chunk of llm_service.stream_sql_generation and the event made of it;
\* a provider stream that ends without a done line leaves sql unassigned
ChunkTypes == {"token", "complete", "error", "end"}

StreamChunk(r, type, raw) ==
    LET rq == [requests[r] EXCEPT !.generated = 1] IN
    /\ requests[r].pc = "generating"
    /\ type = "token" => rq.tokens < MaxTokens
    /\ requests' = [requests EXCEPT ![r] =
           CASE type = "token" ->
                  [Emit(rq, "token") EXCEPT !.tokens = @ + 1]
             [] type = "complete" ->
                  [Emit(rq, "sql_complete") EXCEPT !.sql = CleanSql(raw),
                                                   !.pc = "sql_complete"]
             [] type = "error" -> StreamError([rq EXCEPT !.provider_failed = TRUE])
             [] type = "end" ->
                  [Progress(rq, "validation") EXCEPT !.pc = "validation"]]
    /\ UNCHANGED <<middlewareVars, intact>>
    /\ PipelineCall

\* a chunk loop that waits for a further chunk after the complete chunk
StreamSqlCompleteWaits(r) ==
    /\ requests[r].pc = "sql_complete"
    /\ requests' = [requests EXCEPT ![r] =
           [Progress(@, "validation") EXCEPT !.pc = "awaiting_chunk"]]
    /\ UNCHANGED <<middlewareVars, intact>>
    /\ PipelineCall

\* the chunk loop ends after the complete chunk
StreamSqlComplete(r) ==
    /\ requests[r].pc = "sql_complete"
    /\ requests' = [requests EXCEPT ![r] =
           [Progress(@, "validation") EXCEPT !.pc = "validation"]]
    /\ UNCHANGED <<middlewareVars, intact>>
    /\ PipelineCall

\* generate_stream from the validation progress event to the next yield
StreamValidate(r) ==
    LET rq == requests[r] IN
    /\ rq.pc = "validation"
    /\ requests' = [requests EXCEPT ![r] =
           IF rq.sql = Unbound
           THEN StreamError(rq)                   \* UnboundLocalError
           ELSE LET checked == [rq EXCEPT !.validated = Append(@, rq.sql)] IN
                IF ~ValidatedSafe(rq.sql)
                THEN TerminateStream(Emit(checked, "error"), ErrorOutcome)
                ELSE [Progress(checked, "execution") EXCEPT !.pc = "execution"]]
    /\ UNCHANGED <<middlewareVars, intact>>
    /\ PipelineCall

\* an execution step that runs the query again after a database failure
StreamExecuteRetries(r, db_ok, results) ==
    LET rq == [requests[r] EXCEPT !.executed = Append(@, requests[r].sql)] IN
    /\ rq.pc = "execution"
    /\ IF ~db_ok
       THEN /\ requests' = [requests EXCEPT ![r] =
                   IF Len(rq.executed) < 2 THEN rq ELSE StreamError(rq)]
            /\ UNCHANGED <<middlewareVars, intact>>
       ELSE LET stored == [rq EXCEPT !.stored = TRUE] IN
            /\ StoreStep(r, rq, results, JsonSerializable(results))
            /\ requests' = [requests EXCEPT ![r] =
                   IF JsonSerializable(results)
                   THEN StreamComplete(stored, rq.sql, results, FALSE)
                   ELSE StreamError(stored)]
    /\ PipelineCall

\* generate_stream from the execution progress event to its end
StreamExecute(r, db_ok, results) ==
    LET rq == [requests[r] EXCEPT !.executed = Append(@, requests[r].sql)] IN
    /\ rq.pc = "execution"
    /\ IF ~db_ok
       THEN \* db.execute_query raises
            /\ requests' = [requests EXCEPT ![r] = StreamError(rq)]
            /\ UNCHANGED <<middlewareVars, intact>>
       ELSE LET stored == [rq EXCEPT !.stored = TRUE] IN
            /\ StoreStep(r, rq, results, JsonSerializable(results))
            /\ requests' = [requests EXCEPT ![r] =
                   IF JsonSerializable(results)
                   THEN StreamComplete(stored, rq.sql, results, FALSE)
                   ELSE StreamError(stored)]    \* json.dumps raises
    /\ PipelineCall

\* query_database up to the await of the provider
BlockingStart(r) ==
    LET rq0 == [requests[r] EXCEPT !.question = Strip(requests[r].raw)] IN
    /\ requests[r].pc = "start"
    /\ requests[r].mode = "blocking"
    /\ \E linker_ok \in BOOLEAN :
         IF rq0.question = <<>> \/ ~linker_ok
         THEN \* HTTPException(400) or the linker's exception, both re-raised
              \* as HTTPException(500) by the except clause
              /\ requests' = [requests EXCEPT ![r] =
                     IF rq0.question = <<>>
                     THEN BlockingError(rq0, 400)
                     ELSE BlockingError(LinkerCalled(rq0), 500)]
              /\ UNCHANGED <<middlewareVars, intact>>
         ELSE LET rq == LookedUp(Linked(rq0))
                  cached_result == BeforeRequestResult(rq.question, rq.schema_text)
                  hit == cached_result # NoneRet
              IN  /\ BeforeRequest(rq.question, rq.schema_text)
                  /\ requests' = [requests EXCEPT ![r] =
                         IF hit
                         THEN BlockingResponse(rq, ResultOutcome(cached_result.sql,
                                  cached_result.results, cached_result.cached))
                         ELSE [ProviderCalled(rq) EXCEPT !.pc = "awaiting_sql"]]
                  /\ intact' = IF hit THEN intact \cup {r} ELSE intact
    /\ PipelineCall

\* query_database from the answer of the provider to its end
BlockingGenerated(r, llm_ok, raw, db_ok, results) ==
    LET rq0 == [requests[r] EXCEPT !.generated = 1]
        rq1 == [rq0 EXCEPT !.sql = CleanSql(Strip(raw)),
                           !.validated = Append(@, CleanSql(Strip(raw)))]
        rq2 == [rq1 EXCEPT !.executed = Append(@, rq1.sql)]
    IN
    /\ requests[r].pc = "awaiting_sql"
    /\ IF ~llm_ok
       THEN /\ requests' = [requests EXCEPT ![r] =
                   BlockingError([rq0 EXCEPT !.provider_failed = TRUE], 500)]
            /\ UNCHANGED <<middlewareVars, intact>>
       ELSE IF ~ValidatedSafe(rq1.sql)
       THEN /\ requests' = [requests EXCEPT ![r] = BlockingError(rq1, 400)]
            /\ UNCHANGED <<middlewareVars, intact>>
       ELSE IF ~db_ok
       THEN /\ requests' = [requests EXCEPT ![r] = BlockingError(rq2, 500)]
            /\ UNCHANGED <<middlewareVars, intact>>
       ELSE /\ StoreStep(r, rq2, results, TRUE)
            /\ requests' = [requests EXCEPT ![r] =
                   BlockingResponse([rq2 EXCEPT !.stored = TRUE],
                                    ResultOutcome(rq2.sql, results, FALSE))]
    /\ PipelineCall

\* DELETE /api/cache/clear
ClearCache ==
    /\ exact_cache' = <<>>
    /\ hits' = 0
    /\ misses' = 0
    /\ total_time_saved' = 0
    /\ intact' = {}
    /\ UNCHANGED requests
    /\ PipelineCall

\* the caller of /api/query/stream disconnects: the generator is cancelled at
\* the yield or await it is suspended at, and CancelledError / GeneratorExit
\* pass the `except Exception` clause
AbandonedOutcome == [kind |-> "abandoned"]

SuspensionPoints ==
    {"cache_check", "schema", "generating", "sql_complete", "validation", "execution"}

\* a cancellation that also discards the cache entry under the request's key
StreamAbandonDiscards(r) ==
    /\ requests[r].mode = "stream"
    /\ requests[r].pc \in SuspensionPoints
    /\ requests' = [requests EXCEPT ![r] = Terminate(@, AbandonedOutcome)]
    /\ exact_cache' = Remove(exact_cache, RequestKey(requests[r]))
    /\ UNCHANGED <<hits, misses, total_time_saved, intact>>
    /\ PipelineCall

StreamAbandon(r) ==
    /\ requests[r].mode = "stream"
    /\ requests[r].pc \in SuspensionPoints
    /\ requests' = [requests EXCEPT ![r] = Terminate(@, AbandonedOutcome)]
    /\ UNCHANGED <<middlewareVars, intact>>
    /\ PipelineCall

PipelineNext ==
    \/ \E r \in Requests, mode \in {"stream", "blocking"}, q \in PipelineQuestions :
           Submit(r, mode, q)
    \/ \E r \in Requests : StreamStart(r)
    \/ \E r \in Requests : StreamCacheCheck(r)
    \/ \E r \in Requests : StreamSchema(r)
    \/ \E r \in Requests, type \in ChunkTypes, raw \in RawSqls : StreamChunk(r, type, raw)
    \/ \E r \in Requests : StreamSqlComplete(r)
    \/ \E r \in Requests : StreamValidate(r)
    \/ \E r \in Requests, db_ok \in BOOLEAN, results \in ExecResults :
           StreamExecute(r, db_ok, results)
    \/ \E r \in Requests : BlockingStart(r)
    \/ \E r \in Requests, llm_ok \in BOOLEAN, raw \in RawSqls,
          db_ok \in BOOLEAN, results \in ExecResults :
           BlockingGenerated(r, llm_ok, raw, db_ok, results)
    \/ ClearCache

(***************************************************************************)
(* Schema linker: VectorSchemaOptimizer (vector_schema.py) and the older    *)
(* SchemaOptimizer (schema_optimizer.py).  A catalog is the sequence of the *)
(* table names db.get_schema() returns, in its order (ORDER BY table_name). *)
(* A similarity is kept in hundredths.                                      *)
(***************************************************************************)
\* self.table_descriptions, in insertion order
TableOrder ==
    <<"students", "departments", "courses", "attendance", "grades", "hostels",
      "placements", "enrollments">>

Tables == {TableOrder[i] : i \in 1..Len(TableOrder)}

\* the tables generate_fake_data.py fills, as get_schema() lists them
FullCatalog ==
    <<"attendance", "courses", "departments", "enrollments", "grades", "hostels",
      "placements", "students">>

\* the database with its tables, and before any table is created
Catalogs == {FullCatalog, <<>>}

\* VectorSchemaOptimizer.table_keywords
TableKeywords ==
    <<[table |-> "students", keywords |->
         <<<<"s","t","u","d","e","n","t">>,
           <<"n","a","m","e">>,
           <<"g","p","a">>,
           <<"g","r","a","d","e">>,
           <<"e","n","r","o","l","l","m","e","n","t">>>>],
      [table |-> "departments", keywords |->
         <<<<"d","e","p","a","r","t","m","e","n","t">>,
           <<"d","e","p","t">>,
           <<"h","o","d">>,
           <<"f","a","c","u","l","t","y">>>>],
      [table |-> "courses", keywords |->
         <<<<"c","o","u","r","s","e">>,
           <<"s","u","b","j","e","c","t">>,
           <<"c","l","a","s","s">>>>],
      [table |-> "attendance", keywords |->
         <<<<"a","t","t","e","n","d","a","n","c","e">>,
           <<"p","r","e","s","e","n","t">>,
           <<"a","b","s","e","n","t">>,
           <<"a","t","t","e","n","d">>>>],
      [table |-> "grades", keywords |->
         <<<<"g","r","a","d","e">>,
           <<"s","c","o","r","e">>,
           <<"m","a","r","k","s">>,
           <<"r","e","s","u","l","t">>,
           <<"e","x","a","m">>>>],
      [table |-> "hostels", keywords |->
         <<<<"h","o","s","t","e","l">>,
           <<"r","o","o","m">>,
           <<"a","c","c","o","m","m","o","d","a","t","i","o","n">>,
           <<"r","e","s","i","d","e","n","c","e">>>>],
      [table |-> "placements", keywords |->
         <<<<"p","l","a","c","e","m","e","n","t">>,
           <<"j","o","b">>,
           <<"c","o","m","p","a","n","y">>,
           <<"r","e","c","r","u","i","t">>,
           <<"p","l","a","c","e","d">>>>],
      [table |-> "enrollments", keywords |->
         <<<<"e","n","r","o","l","l","m","e","n","t">>,
           <<"e","n","r","o","l","l","e","d">>,
           <<"t","a","k","i","n","g">>,
           <<"r","e","g","i","s","t","e","r","e","d">>>>]>>

\* SchemaOptimizer.table_keywords: no entry for enrollments
OptimizerTableKeywords ==
    <<[table |-> "students", keywords |->
         <<<<"s","t","u","d","e","n","t">>,
           <<"n","a","m","e">>,
           <<"g","p","a">>,
           <<"g","r","a","d","e">>,
           <<"e","n","r","o","l","l","m","e","n","t">>>>],
      [table |-> "departments", keywords |->
         <<<<"d","e","p","a","r","t","m","e","n","t">>,
           <<"d","e","p","t">>,
           <<"h","o","d">>,
           <<"f","a","c","u","l","t","y">>>>],
      [table |-> "courses", keywords |->
         <<<<"c","o","u","r","s","e">>,
           <<"s","u","b","j","e","c","t">>,
           <<"c","l","a","s","s">>>>],
      [table |-> "attendance", keywords |->
         <<<<"a","t","t","e","n","d","a","n","c","e">>,
           <<"p","r","e","s","e","n","t">>,
           <<"a","b","s","e","n","t">>,
           <<"a","t","t","e","n","d">>>>],
      [table |-> "grades", keywords |->
         <<<<"g","r","a","d","e">>,
           <<"s","c","o","r","e">>,
           <<"m","a","r","k","s">>,
           <<"r","e","s","u","l","t">>,
           <<"e","x","a","m">>>>],
      [table |-> "hostels", keywords |->
         <<<<"h","o","s","t","e","l">>,
           <<"r","o","o","m">>,
           <<"a","c","c","o","m","m","o","d","a","t","i","o","n">>,
           <<"r","e","s","i","d","e","n","c","e">>>>],
      [table |-> "placements", keywords |->
         <<<<"p","l","a","c","e","m","e","n","t">>,
           <<"j","o","b">>,
           <<"c","o","m","p","a","n","y">>,
           <<"r","e","c","r","u","i","t">>,
           <<"p","l","a","c","e","d">>>>]>>

TopK == 4
SimilarityFloor == 30

SeqToSet(s) == {s[i] : i \in 1..Len(s)}

\* for table, keywords in table_keywords.items(): if table in full_schema and
\* some keyword in question_lower: relevant_tables.append(table)
KeywordMatches(table_keywords, question, full_schema) ==
    LET question_lower == Lower(question)
        hit(i) == /\ table_keywords[i].table \in SeqToSet(full_schema)
                  /\ \E k \in 1..Len(table_keywords[i].keywords) :
                         Contains(question_lower, table_keywords[i].keywords[k])
        picked == SelectSeq([i \in 1..Len(table_keywords) |-> i], hit)
    IN [j \in 1..Len(picked) |-> table_keywords[picked[j]].table]

\* the selection without the junction rule
WithoutEnrollments(relevant_tables) == relevant_tables

\* if "students" in relevant_tables and "courses" in relevant_tables and
\* "enrollments" not in relevant_tables: relevant_tables.append("enrollments")
WithEnrollments(relevant_tables) ==
    IF /\ "students" \in SeqToSet(relevant_tables)
       /\ "courses" \in SeqToSet(relevant_tables)
       /\ "enrollments" \notin SeqToSet(relevant_tables)
    THEN Append(relevant_tables, "enrollments")
    ELSE relevant_tables

\* if not relevant_tables: relevant_tables = list(self.full_schema.keys())
AllTablesIfNone(relevant_tables, full_schema) ==
    IF relevant_tables = <<>> THEN full_schema ELSE relevant_tables

\* VectorSchemaOptimizer._get_relevant_tables_keyword
GetRelevantTablesKeyword(question, full_schema) ==
    AllTablesIfNone(WithEnrollments(KeywordMatches(TableKeywords, question, full_schema)),
                    full_schema)

\* sorted(similarities.items(), key=lambda x: x[1], reverse=True): a stable
\* sort, tables of one similarity stay in the order of table_embeddings
RECURSIVE SortedBySimilarity(_, _)
SortedBySimilarity(similarities, tables) ==
    IF tables = {} THEN <<>>
    ELSE LET best == CHOOSE v \in {similarities[t] : t \in tables} :
                         \A t \in tables : similarities[t] <= v
             first == SelectSeq(TableOrder,
                                LAMBDA t : t \in tables /\ similarities[t] = best)
         IN first \o SortedBySimilarity(similarities, tables \ SeqToSet(first))

\* a selection of every table above the floor, without the cut at top_k
TablesAboveFloor(scores, full_schema) ==
    LET similarities == [t \in Tables \cap SeqToSet(full_schema) |-> scores[t]]
        sorted_tables == SortedBySimilarity(similarities, DOMAIN similarities)
    IN SelectSeq(sorted_tables, LAMBDA t : similarities[t] > SimilarityFloor)

\* [table for table, score in sorted_tables[:top_k] if score > 0.3];
\* scores[t] is the similarity of the question to table t
TopTablesAboveFloor(scores, full_schema) ==
    LET similarities == [t \in Tables \cap SeqToSet(full_schema) |-> scores[t]]
        sorted_tables == SortedBySimilarity(similarities, DOMAIN similarities)
        top == SubSeq(sorted_tables, 1,
                      IF Len(sorted_tables) < TopK THEN Len(sorted_tables) ELSE TopK)
    IN SelectSeq(top, LAMBDA t : similarities[t] > SimilarityFloor)

\* VectorSchemaOptimizer._get_relevant_tables_vector with the embedding
\* model loaded
GetRelevantTablesVector(scores, full_schema) ==
    WithEnrollments(TopTablesAboveFloor(scores, full_schema))

\* the table blocks of the schema text: for table in relevant_tables:
\* if table in self.full_schema
TableBlocks(relevant_tables, full_schema) ==
    LET listed == SelectSeq(relevant_tables, LAMBDA t : t \in SeqToSet(full_schema))
    IN [i \in 1..Len(listed) |-> TableBlock(listed[i])]

\* the relationship lines both linkers write, each ending in "\n"
Hint ==
    [students_departments |->
         [text |-> "- students.department_id -> departments.id", chars |-> 43],
     students_hostels |->
         [text |-> "- students.hostel_id -> hostels.id", chars |-> 35],
     courses_departments |->
         [text |-> "- courses.department_id -> departments.id", chars |-> 42],
     enrollments_student |->
         [text |-> "- enrollments.student_id -> students.id", chars |-> 40],
     enrollments_course |->
         [text |-> "- enrollments.course_id -> courses.id", chars |-> 38],
     attendance_student |->
         [text |-> "- attendance.student_id -> students.id", chars |-> 39],
     attendance_course |->
         [text |-> "- attendance.course_id -> courses.id", chars |-> 37],
     grades_student |->
         [text |-> "- grades.student_id -> students.id", chars |-> 35],
     grades_course |->
         [text |-> "- grades.course_id -> courses.id", chars |-> 33],
     placements_student |->
         [text |-> "- placements.student_id -> students.id", chars |-> 39]]
\* "\nTable Relationships:\n"
TableRelationshipsHeader == [text |-> "Table Relationships:", chars |-> 22]
ImportantNote ==
    [text |-> "IMPORTANT: To join students with courses, use the enrollments table!",
     chars |-> 70]

\* the hints VectorSchemaOptimizer.get_relevant_tables appends
RelationshipHints(relevant_tables) ==
    LET sel == SeqToSet(relevant_tables)
        when(c, blocks) == IF c THEN blocks ELSE <<>>
    IN when("students" \in sel /\ "departments" \in sel, <<Hint.students_departments>>)
       \o when("students" \in sel /\ "hostels" \in sel, <<Hint.students_hostels>>)
       \o when("courses" \in sel /\ "departments" \in sel, <<Hint.courses_departments>>)
       \o when("enrollments" \in sel, <<Hint.enrollments_student, Hint.enrollments_course>>)
       \o when("attendance" \in sel, <<Hint.attendance_student, Hint.attendance_course>>)
       \o when("grades" \in sel, <<Hint.grades_student, Hint.grades_course>>)
       \o when("placements" \in sel, <<Hint.placements_student>>)

\* the text VectorSchemaOptimizer.get_relevant_tables returns
VectorSchemaText(relevant_tables, full_schema) ==
    <<SchemaHeader>> \o TableBlocks(relevant_tables, full_schema)
        \o <<RelationshipsHeader>> \o RelationshipHints(relevant_tables)

\* the text SchemaOptimizer.get_relevant_tables returns
OptimizerSchemaText(relevant_tables, full_schema) ==
    <<SchemaHeader>> \o TableBlocks(relevant_tables, full_schema)
        \o <<TableRelationshipsHeader, Hint.students_departments, Hint.students_hostels,
              Hint.courses_departments, Hint.enrollments_student, Hint.enrollments_course,
              Hint.attendance_student, Hint.attendance_course, Hint.grades_student,
              Hint.grades_course, Hint.placements_student, ImportantNote>>

\* words of the questions put to the linker
LinkerWords ==
    {<<"S","t","u","d","e","n","t","s">>,
     <<"c","o","u","r","s","e","s">>,
     <<"e","n","r","o","l","l","e","d">>,
     <<"w","e","a","t","h","e","r">>,
     <<"G","P","A">>,
     <<"c","l","a","s","s","r","o","o","m">>}

RECURSIVE WordSequences(_)
WordSequences(n) ==
    IF n = 0 THEN {<<>>}
    ELSE LET shorter == WordSequences(n - 1) IN
         shorter \cup {s \o (IF s = <<>> THEN <<>> ELSE <<" ">>) \o w :
                           s \in shorter, w \in LinkerWords}

LinkerQuestions == WordSequences(MaxWords)

\* similarities the embedding model may give a table: at the floor, just
\* above it, and well above it
ScoreValues == {30, 31, 80}
NoScores == [t \in Tables |-> 0]
ScoreProfiles == [Tables -> ScoreValues]

\* the calls made on a linker: the keyword strategies on every question and
\* catalog, the vector strategy on every similarity profile (the profile is
\* what the embedding model makes of the question)
LinkerInputs ==
    {[class |-> c, deps |-> FALSE, question |-> q, scores |-> NoScores, catalog |-> db] :
        c \in {"SchemaOptimizer", "VectorSchemaOptimizer"}, q \in LinkerQuestions,
        db \in Catalogs}
    \cup {[class |-> "VectorSchemaOptimizer", deps |-> TRUE, question |-> <<"S","t","u","d","e","n","t","s"," ","o","f"," ","a"," ","c","o","u","r","s","e">>,
           scores |-> s, catalog |-> FullCatalog] : s \in ScoreProfiles}
    \cup {[class |-> "VectorSchemaOptimizer", deps |-> TRUE, question |-> <<"w","e","a","t","h","e","r">>,
           scores |-> NoScores, catalog |-> <<>>]}

NoInput ==
    [class |-> "none", deps |-> FALSE, question |-> <<>>, scores |-> NoScores,
     catalog |-> <<>>]

\* a linker as __init__ leaves it, with the call about to be made on it
NewOptimizer(input) ==
    [input |-> input, full_schema |-> NoneSeq, schema_cache |-> NoneSeq,
     pc |-> "constructed", relevant_tables |-> NoneSeq, schema_text |-> NoneSeq,
     \* history: the tables the vector strategy selected before it looked
     \* for the junction table
     top_tables |-> NoneSeq,
     \* history: the calls of db.get_schema() made so far
     queries |-> 0]

LinkerIdle == optimizer = NewOptimizer(NoInput)

LinkerInit == optimizer \in {NewOptimizer(i) : i \in LinkerInputs}

LinkerCall ==
    UNCHANGED <<impl, semanticVars, simpleVars, middlewareVars, callVars,
                validatorVars, pipelineVars, serviceVars>>

\* VectorSchemaOptimizer.load_schema: the schema it leaves in full_schema
LoadedSchema(o) ==
    IF o.schema_cache # NoneSeq THEN o.schema_cache
    ELSE IF o.full_schema \in {NoneSeq, <<>>} THEN o.input.catalog
    ELSE o.full_schema

\* SchemaOptimizer.load_schema: the schema it leaves in full_schema
OptimizerLoadedSchema(o) ==
    IF o.full_schema \in {NoneSeq, <<>>} THEN o.input.catalog ELSE o.full_schema

\* the calls of db.get_schema() one load_schema makes
SchemaQueries(o) ==
    IF o.input.class = "VectorSchemaOptimizer" /\ o.schema_cache # NoneSeq THEN 0
    ELSE IF o.full_schema \in {NoneSeq, <<>>} THEN 1
    ELSE 0

\* VectorSchemaOptimizer.get_relevant_tables(question)
VectorGetRelevantTables ==
    /\ optimizer.input.class = "VectorSchemaOptimizer"
    /\ optimizer.pc = "constructed"
    /\ LET full_schema == LoadedSchema(optimizer)
           relevant_tables ==
               IF optimizer.input.deps
               THEN GetRelevantTablesVector(optimizer.input.scores, full_schema)
               ELSE GetRelevantTablesKeyword(optimizer.input.question, full_schema)
       IN optimizer' = [optimizer EXCEPT
              !.full_schema = full_schema,
              !.schema_cache = full_schema,
              !.pc = "returned",
              !.relevant_tables = relevant_tables,
              !.schema_text = VectorSchemaText(relevant_tables, full_schema),
              !.queries = @ + SchemaQueries(optimizer),
              !.top_tables = IF optimizer.input.deps
                             THEN TopTablesAboveFloor(optimizer.input.scores, full_schema)
                             ELSE NoneSeq]
    /\ LinkerCall

\* SchemaOptimizer.get_relevant_tables(question)
OptimizerGetRelevantTables ==
    /\ optimizer.input.class = "SchemaOptimizer"
    /\ optimizer.pc = "constructed"
    /\ LET full_schema == IF optimizer.full_schema \in {NoneSeq, <<>>}
                          THEN optimizer.input.catalog ELSE optimizer.full_schema
           relevant_tables ==
               AllTablesIfNone(
                   WithEnrollments(KeywordMatches(OptimizerTableKeywords,
                                                  optimizer.input.question, full_schema)),
                   full_schema)
       IN optimizer' = [optimizer EXCEPT
              !.full_schema = full_schema,
              !.pc = "returned",
              !.relevant_tables = relevant_tables,
              !.schema_text = OptimizerSchemaText(relevant_tables, full_schema),
              !.queries = @ + SchemaQueries(optimizer)]
    /\ LinkerCall

\* load_schema() called once more on a linker whose first call returned
LoadSchemaAgain ==
    /\ optimizer.pc = "returned"
    /\ optimizer' = [optimizer EXCEPT
           !.full_schema = IF optimizer.input.class = "VectorSchemaOptimizer"
                           THEN LoadedSchema(optimizer)
                           ELSE OptimizerLoadedSchema(optimizer),
           !.schema_cache = IF optimizer.input.class = "VectorSchemaOptimizer"
                            THEN LoadedSchema(optimizer)
                            ELSE @,
           !.queries = @ + SchemaQueries(optimizer),
           !.pc = "reloaded"]
    /\ LinkerCall

LinkerNext == VectorGetRelevantTables \/ OptimizerGetRelevantTables \/ LoadSchemaAgain

(***************************************************************************)
(* LLMService (llm_service.py): stream_sql_generation, an async generator  *)
(* that advances from one yield to the next, and generate_sql.  The        *)
(* provider's answer is a sequence of lines; the provider may fail (time   *)
(* out, or fail in transport) once it has delivered some of them.          *)
(***************************************************************************)
NoResponse == NoneSeq        \* a JSON object without a "response" member

\* token texts of the provider
Tokens == {SelectAllStudents, <<";">>}

\* a line json.loads rejects; a line that is JSON but no object; an object
\* with or without "response" and "done"
InvalidJson == [json |-> "invalid", response |-> NoResponse, done |-> FALSE]
NotAnObject == [json |-> "scalar", response |-> NoResponse, done |-> FALSE]
JsonObject(response, done) == [json |-> "object", response |-> response, done |-> done]

ProviderLines ==
    {InvalidJson, NotAnObject}
    \cup {JsonObject(r, d) : r \in Tokens \cup {NoResponse}, d \in BOOLEAN}

RECURSIVE LineSequences(_)
LineSequences(n) ==
    IF n = 0 THEN {<<>>}
    ELSE LET shorter == LineSequences(n - 1) IN
         shorter \cup {Append(s, l) : s \in shorter, l \in ProviderLines}

NoFault == [kind |-> "none", at |-> 0]

\* the provider fails once it has delivered `at` lines (0: the POST fails)
Faults(lines) ==
    {NoFault} \cup {[kind |-> k, at |-> n] : k \in {"timeout", "transport"},
                                              n \in 0..Len(lines)}

NewCall(mode, lines, fault) ==
    [mode |-> mode, lines |-> lines, fault |-> fault, pc |-> "called", read |-> 0,
     accumulated_sql |-> <<>>, chunks |-> <<>>, returned |-> NoneSeq,
     raised |-> "none",
     \* history: the provider has failed during this call
     failed |-> FALSE]

\* the calls made on the service: a streaming call on every answer of up to
\* MaxLines lines, a blocking call on every answer of one JSON document
ServiceInputs ==
    UNION {{NewCall("stream", l, f) : f \in Faults(l)} : l \in LineSequences(MaxLines)}
    \cup {NewCall("blocking", <<l>>, f) : l \in ProviderLines, f \in Faults(<<>>)}

ServiceIdle == service = NewCall("none", <<>>, NoFault)

ServiceInit == service \in ServiceInputs

ServiceCall ==
    /\ impl = "LLMService"
    /\ UNCHANGED <<impl, semanticVars, simpleVars, middlewareVars, callVars,
                   validatorVars, pipelineVars, linkerVars>>

\* a token chunk that carries the token in place of the accumulated text
TokenChunkOfTokenOnly(token, accumulated) ==
    [type |-> "token", content |-> token, accumulated |-> token]

TokenChunk(token, accumulated) ==
    [type |-> "token", content |-> token, accumulated |-> accumulated]
CompleteChunk(sql) == [type |-> "complete", sql |-> sql]
ErrorChunk(fault) ==
    [type |-> "error",
     message |-> IF fault = "timeout" THEN "LLM request timed out" ELSE "LLM error"]

Yield(s, chunk) == [s EXCEPT !.chunks = Append(@, chunk)]

\* the provider fails at the next await of the generator
FailsNow(s) == s.fault.kind # "none" /\ s.fault.at = s.read

\* the except clauses without the yield
SwallowError(s, fault) ==
    [s EXCEPT !.pc = "closed", !.failed = fault \in {"timeout", "transport"}]

\* the except clauses of stream_sql_generation: one error chunk, and the
\* generator ends
YieldError(s, fault) ==
    [Yield(s, ErrorChunk(fault)) EXCEPT
        !.pc = "closed", !.failed = fault \in {"timeout", "transport"}]

\* session.post(...) and response.raise_for_status()
StreamPost ==
    /\ service.mode = "stream"
    /\ service.pc = "called"
    /\ service' = IF FailsNow(service)
                  THEN YieldError(service, service.fault.kind)
                  ELSE [service EXCEPT !.pc = "reading"]
    /\ ServiceCall

\* async for line in response.content, up to the next yield or to the end
\* of the generator
StreamLine ==
    /\ service.mode = "stream"
    /\ service.pc = "reading"
    /\ service' =
          IF FailsNow(service) THEN YieldError(service, service.fault.kind)
          ELSE IF service.read = Len(service.lines)
          THEN \* the provider closed the stream: the loop ends
               [service EXCEPT !.pc = "closed"]
          ELSE LET line == service.lines[service.read + 1]
                   s == [service EXCEPT !.read = @ + 1]
               IN CASE line.json = "invalid" -> s         \* JSONDecodeError: continue
                    [] line.json = "scalar" ->
                         \* "response" in chunk / chunk.get raise
                         YieldError(s, "exception")
                    [] line.response # NoResponse ->
                         LET accumulated == s.accumulated_sql \o line.response IN
                         [Yield(s, TokenChunk(line.response, accumulated)) EXCEPT
                              !.accumulated_sql = accumulated,
                              !.pc = IF line.done THEN "done" ELSE "reading"]
                    [] line.done ->
                         [Yield(s, CompleteChunk(CleanSql(s.accumulated_sql))) EXCEPT
                              !.pc = "completed"]
                    [] OTHER -> s
    /\ ServiceCall

\* the generator resumed after the token chunk of a line that says done
StreamDone ==
    /\ service.mode = "stream"
    /\ service.pc = "done"
    /\ service' = [Yield(service, CompleteChunk(CleanSql(service.accumulated_sql)))
                       EXCEPT !.pc = "completed"]
    /\ ServiceCall

\* the generator resumed after the complete chunk: break
StreamBreak ==
    /\ service.mode = "stream"
    /\ service.pc = "completed"
    /\ service' = [service EXCEPT !.pc = "closed"]
    /\ ServiceCall

\* LLMService.generate_sql
GenerateSql ==
    /\ service.mode = "blocking"
    /\ service.pc = "called"
    /\ LET result == service.lines[1] IN
       service' =
          IF FailsNow(service) \/ result.json # "object"
          THEN [service EXCEPT !.pc = "closed", !.raised = "Exception",
                               !.failed = FailsNow(service)]
          ELSE [service EXCEPT
                   !.pc = "closed", !.read = 1,
                   !.returned = CleanSql(Strip(IF result.response = NoResponse
                                               THEN <<>> ELSE result.response))]
    /\ ServiceCall

ServiceNext == StreamPost \/ StreamLine \/ StreamDone \/ StreamBreak \/ GenerateSql

\* LLMService._clean_sql on its own (OllamaClient._clean_sql has the same
\* body).  The texts handed to it are put together from a word, a blank, a
\* line break, a statement terminator, the two fence markers and a single
\* fence character.
CleanPieces ==
    {<<"S">>, <<" ">>, <<"\n">>, <<";">>, CodeFence, SqlCodeFence, <<Backtick>>}

RECURSIVE PieceTexts(_)
PieceTexts(n) ==
    IF n = 0 THEN {<<>>}
    ELSE LET shorter == PieceTexts(n - 1) IN
         shorter \cup {t \o p : t \in shorter, p \in CleanPieces}

\* a call _clean_sql(sql): the argument is kept in accumulated_sql, the name
\* of the argument at the call in stream_sql_generation
CleanCall(sql) ==
    [NewCall("clean", <<>>, NoFault) EXCEPT !.accumulated_sql = sql]

CleanInit == service \in {CleanCall(sql) : sql \in PieceTexts(MaxPieces)}

\* sql = self._clean_sql(sql)
Clean ==
    /\ service.mode = "clean"
    /\ service.pc = "called"
    /\ service' = [service EXCEPT !.returned = CleanSql(service.accumulated_sql),
                                  !.pc = "cleaned"]
    /\ ServiceCall

\* the returned text handed to _clean_sql once more
CleanAgain ==
    /\ service.mode = "clean"
    /\ service.pc = "cleaned"
    /\ service' = [service EXCEPT !.accumulated_sql = service.returned,
                                  !.returned = CleanSql(service.returned),
                                  !.pc = "closed"]
    /\ ServiceCall

CleanNext == Clean \/ CleanAgain

(***************************************************************************)
(* Specifications: each object is exercised on its own.                    *)
(***************************************************************************)
CachesIdle ==
    /\ impl = "none"
    /\ deps = FALSE
    /\ SCInit
    /\ SimpleInit
    /\ MwInit
    /\ last = NoArgs("init")
    /\ ret = NoneRet
    /\ raised = "none"
    /\ LinkerIdle
    /\ ServiceIdle

CachesInitOf(impls) ==
    /\ impl \in impls
    /\ deps \in BOOLEAN
    /\ (impl # "SemanticCache") => ~deps
    /\ SCInit
    /\ SimpleInit
    /\ MwInit
    /\ last = NoArgs("init")
    /\ ret = NoneRet
    /\ raised = "none"
    /\ ValidatorIdle
    /\ PipelineInit
    /\ LinkerIdle
    /\ ServiceIdle

CachesNext == SCNext \/ SimpleNext \/ MwNext

SpecCaches ==
    /\ CachesInitOf({"SemanticCache", "SimpleCache", "CachingMiddleware"})
    /\ [][CachesNext]_vars

SpecSemanticCache == CachesInitOf({"SemanticCache"}) /\ [][SCNext]_vars

ValidatorSpecInit ==
    /\ ValidatorInit
    /\ CachesIdle
    /\ PipelineInit

SpecValidator == ValidatorSpecInit /\ [][Validate]_vars

PipelineSpecInit ==
    /\ PipelineInit
    /\ CachesIdle
    /\ ValidatorIdle

SpecPipeline == PipelineSpecInit /\ [][PipelineNext]_vars

\* the steps of request r once it was submitted: the event loop resumes
\* every handler that can go on, and every call to the provider and to the
\* database returns or fails
RequestStep(r) ==
    \/ StreamStart(r)
    \/ StreamCacheCheck(r)
    \/ StreamSchema(r)
    \/ \E type \in ChunkTypes, raw \in RawSqls : StreamChunk(r, type, raw)
    \/ StreamSqlComplete(r)
    \/ StreamValidate(r)
    \/ \E db_ok \in BOOLEAN, results \in ExecResults : StreamExecute(r, db_ok, results)
    \/ BlockingStart(r)
    \/ \E llm_ok \in BOOLEAN, raw \in RawSqls, db_ok \in BOOLEAN, results \in ExecResults :
           BlockingGenerated(r, llm_ok, raw, db_ok, results)

FairPipeline ==
    /\ PipelineSpecInit
    /\ [][PipelineNext]_vars
    /\ \A r \in Requests : WF_vars(RequestStep(r))

\* the endpoints with callers that may disconnect from a stream
AbandonNext == PipelineNext \/ \E r \in Requests : StreamAbandon(r)

SpecAbandon == PipelineSpecInit /\ [][AbandonNext]_vars

LinkerSpecInit ==
    /\ LinkerInit
    /\ impl = "none"
    /\ deps = FALSE
    /\ SCInit
    /\ SimpleInit
    /\ MwInit
    /\ last = NoArgs("init")
    /\ ret = NoneRet
    /\ raised = "none"
    /\ ValidatorIdle
    /\ PipelineInit
    /\ ServiceIdle

SpecLinker == LinkerSpecInit /\ [][LinkerNext]_vars

\* the caches, the validator, the endpoints and the linker as constructed
OthersIdle ==
    /\ deps = FALSE
    /\ SCInit
    /\ SimpleInit
    /\ MwInit
    /\ last = NoArgs("init")
    /\ ret = NoneRet
    /\ raised = "none"
    /\ ValidatorIdle
    /\ PipelineInit
    /\ LinkerIdle

ServiceSpecInit ==
    /\ impl = "LLMService"
    /\ ServiceInit
    /\ OthersIdle

SpecLlmService == ServiceSpecInit /\ [][ServiceNext]_vars

CleanSpecInit ==
    /\ impl = "LLMService"
    /\ CleanInit
    /\ OthersIdle

SpecCleanSql == CleanSpecInit /\ [][CleanNext]_vars

\* generation as the service performs it and as the endpoints consume it
GenerationInit ==
    /\ impl \in {"LLMService", "none"}
    /\ IF impl = "LLMService" THEN ServiceInit ELSE ServiceIdle
    /\ OthersIdle

GenerationNext == ServiceNext \/ PipelineNext

SpecGeneration == GenerationInit /\ [][GenerationNext]_vars

(***************************************************************************)
(* Properties of the caches.                                                *)
(***************************************************************************)
\* two questions that differ only in letter case or in surrounding whitespace
SameQuestion(q1, q2) == Strip(Lower(q1)) = Strip(Lower(q2))

IsExactHitOf(r, sql, results) ==
    /\ r # NoneRet
    /\ r.sql = sql
    /\ r.results = results
    /\ r.cached = TRUE
    /\ r.cache_type = "exact"

\* C1: a store of Q followed immediately by a lookup of a question that differs
\* from Q only in letter case or surrounding whitespace returns the stored sql
\* and results, cached and tagged "exact" (SemanticCache, and CachingMiddleware
\* for the same schema text)
C1_StoreThenLookupIsExactHit ==
    [][/\ ( /\ last.op = "set" /\ raised = "none"
            /\ last'.op = "get"
            /\ SameQuestion(last'.question, last.question) )
          => IsExactHitOf(ret', last.sql, last.results)
       /\ ( /\ last.op = "after_response" /\ raised = "none"
            /\ last'.op = "before_request"
            /\ SameQuestion(last'.question, last.question)
            /\ last'.schema = last.schema )
          => IsExactHitOf(ret', last.sql, last.results)]_vars

\* a lookup of a question that is not in normal form was an exact hit, in a
\* full cache
C1_Witness ==
    /\ last.op \in {"get", "before_request"}
    /\ last.question # NormalizeQuestion(last.question)
    /\ ret # NoneRet
    /\ ret.cache_type = "exact"
    /\ Len(cache) = MaxSize \/ Len(exact_cache) = MaxSize

\* C2: none of the three caches ever holds more entries than its capacity
C2_SizeAtMostCapacity ==
    /\ Len(cache) <= MaxSize
    /\ Len(simple_cache) <= MaxSize
    /\ Len(exact_cache) <= MaxSize

\* more stores than the capacity since the last clear, and the cache is full
C2_Witness ==
    /\ deps
    /\ last.op = "set"
    /\ current_id > MaxSize
    /\ Len(cache) = MaxSize

\* C3: a store of a new question into a full SemanticCache removes exactly the
\* entry that was least recently returned by a lookup (exact or semantic) or,
\* if never returned, least recently inserted
C3_EvictsLeastRecentlyLookedUp ==
    [][( /\ last'.op = "set"
         /\ Len(cache) = MaxSize
         /\ NormalizeQuestion(last'.question) \notin Keys(cache) )
       => Keys(cache') =
            (Keys(cache) \ {used[1]}) \cup {NormalizeQuestion(last'.question)}]_vars

\* the largest similarity of a stored vector to the embedding of q
NearestSimilarity(q) ==
    LET sims == {Similarity(GetEmbedding(q), index[i]) : i \in 1..Len(index)}
    IN  CHOOSE m \in sims : \A x \in sims : x <= m

\* C4: a lookup of a question without an exact-match key hits only if the
\* nearest stored vector has similarity >= 0.90; the hit is tagged "semantic"
\* and carries that similarity
C4_SemanticHitOnlyAtThreshold ==
    [][( /\ last'.op = "get"
         /\ NormalizeQuestion(last'.question) \notin Keys(cache)
         /\ ret' # NoneRet )
       => /\ deps
          /\ Len(index) > 0
          /\ NearestSimilarity(last'.question) >= SimilarityThreshold
          /\ ret'.cache_type = "semantic"
          /\ ret'.similarity_score = NearestSimilarity(last'.question)]_vars

\* a semantic hit was returned
C4_Witness ==
    /\ last.op = "get"
    /\ ret # NoneRet
    /\ ret.cache_type = "semantic"
    /\ ret.similarity_score >= SimilarityThreshold

\* C9: without the embedding dependency no operation of the cache raises
C9_NoErrorWithoutEmbeddings == ~deps => raised = "none"


\* the ids the index search of a lookup of q may resolve to whose question is
\* similar enough and no longer a key of the exact-match map
StaleNearest(q) ==
    {idx \in Nearest(GetEmbedding(q)) :
        /\ Similarity(GetEmbedding(q), index[idx]) >= SimilarityThreshold
        /\ id_to_question[idx] \notin Keys(cache)}

\* C14: a semantic lookup whose nearest vector has similarity >= 0.90 but whose
\* id maps to a question that is no longer in the exact-match map returns a
\* miss, raises no error, and leaves the cache, the index and the id map as
\* they were.
C14_StaleVectorIsMiss ==
    [][( /\ last'.op = "get"
         /\ deps /\ Len(index) > 0
         /\ NormalizeQuestion(last'.question) \notin Keys(cache)
         /\ StaleNearest(last'.question) = Nearest(GetEmbedding(last'.question)) )
       => /\ ret' = NoneRet
          /\ raised' = "none"
          /\ cache' = cache
          /\ index' = index
          /\ id_to_question' = id_to_question]_vars

\* a lookup met a stale nearest vector while another entry was cached, and
\* missed
C14_Witness ==
    /\ last.op = "get"
    /\ deps /\ Len(index) > 0 /\ cache # <<>>
    /\ NormalizeQuestion(last.question) \notin Keys(cache)
    /\ StaleNearest(last.question) # {}
    /\ StaleNearest(last.question) = Nearest(GetEmbedding(last.question))
    /\ ret = NoneRet

\* C15: clear() leaves the cache empty, the counters of the middleware at 0,
\* the index without vectors, the id map empty and the next id 0; a lookup on
\* the cleared cache is a miss and leaves it cleared, so every lookup before
\* the next store is a miss.
C15_ClearResetsAll ==
    [][/\ (last'.op = "clear" /\ raised' = "none") =>
              /\ cache' = <<>>
              /\ index' = <<>>
              /\ id_to_question' = <<>>
              /\ current_id' = 0
       /\ (last'.op = "mw_clear") =>
              /\ exact_cache' = <<>>
              /\ hits' = 0
              /\ misses' = 0
       /\ (last'.op = "get" /\ cache = <<>> /\ index \in {<<>>, NoneSeq}) =>
              /\ ret' = NoneRet
              /\ cache' = <<>>
              /\ index' = index
       /\ (last'.op = "before_request" /\ exact_cache = <<>>) =>
              /\ ret' = NoneRet
              /\ exact_cache' = <<>>]_vars

\* clear() of a SemanticCache with its embedding model returned without an
\* error and left the cache, the index and the id map empty
C15_Witness ==
    /\ last.op = "clear"
    /\ raised = "none"
    /\ impl = "SemanticCache" /\ deps
    /\ cache = <<>> /\ index = <<>> /\ id_to_question = <<>> /\ current_id = 0

\* C16: the counters of the middleware start at 0; each lookup increments
\* exactly one of them, hits if and only if an entry was returned; clear sets
\* both to 0 and no other operation changes them, so hits + misses is the
\* number of lookups since construction or the last clear; stats reports the
\* number of stored entries as size, and the hit rate hits / (hits + misses)
\* in tenths of a percent, or 0 when no lookup has been performed.
C16_CountersAndStats ==
    /\ (hits = 0 /\ misses = 0)
    /\ [][/\ (last'.op = "before_request") =>
                (IF ret' # NoneRet
                 THEN hits' = hits + 1 /\ misses' = misses
                 ELSE misses' = misses + 1 /\ hits' = hits)
          /\ (last'.op = "mw_clear") => (hits' = 0 /\ misses' = 0)
          /\ (last'.op \in {"after_response", "stats"}) =>
                (hits' = hits /\ misses' = misses)
          /\ (last'.op = "stats") =>
                /\ ret'.size = Len(exact_cache)
                /\ ret'.size = Cardinality(Keys(exact_cache))
                /\ ret'.hits = hits /\ ret'.misses = misses
                /\ IF hits + misses = 0
                   THEN ret'.hit_rate = 0
                   ELSE LET d == ret'.hit_rate * (hits + misses) - 1000 * hits IN
                        2 * d <= hits + misses /\ -2 * d <= hits + misses]_vars

\* stats was asked after hits and misses, with entries stored
C16_Witness ==
    /\ last.op = "stats"
    /\ hits > 0 /\ misses > 0
    /\ ret.size > 0
    /\ ret.hit_rate * (hits + misses) # 0

(***************************************************************************)
(* Properties of the validator.                                            *)
(***************************************************************************)
HasDenylistedKeyword(sql) ==
    \E k \in 1..Len(DANGEROUS_KEYWORDS) :
        Contains(Upper(sql), DANGEROUS_KEYWORDS[k])

NamesKeywordOf(v, sql) ==
    \E k \in 1..Len(DANGEROUS_KEYWORDS) :
        /\ Contains(Upper(sql), DANGEROUS_KEYWORDS[k])
        /\ v.keyword = KeywordName(k)

StartsWithSelect(sql) ==
    StartsWithAt(Strip(Upper(sql)), 1, <<"S", "E", "L", "E", "C", "T">>)

\* C10: the validator applies the keyword denylist, then the injection
\* patterns, then the must-start-with-SELECT rule, and the first rule that
\* matches gives the reason: a text with a denylisted keyword is unsafe with a
\* reason naming a denylisted keyword it contains, whatever else it matches;
\* a text without one that matches an injection pattern is a potential
\* injection even when it does not start with SELECT.  The four sample
\* queries get the verdicts the specification lists.
C10_RulesInOrder ==
    verdict # NoVerdict =>
        /\ HasDenylistedKeyword(sql_text) =>
               /\ ~verdict.safe
               /\ verdict.reason = "Dangerous keyword detected"
               /\ NamesKeywordOf(verdict, sql_text)
        /\ (~HasDenylistedKeyword(sql_text) /\ MatchesInjectionPattern(sql_text)) =>
               /\ ~verdict.safe
               /\ verdict.reason = "Potential SQL injection detected"
        /\ ( /\ ~HasDenylistedKeyword(sql_text)
             /\ ~MatchesInjectionPattern(sql_text)
             /\ ~StartsWithSelect(sql_text) ) =>
               /\ ~verdict.safe
               /\ verdict.reason = "Only SELECT queries are allowed"
        /\ (sql_text = SelectAllStudents) => verdict.safe
        /\ (sql_text = SelectAllStudents \o StackedDrop) =>
               (~verdict.safe /\ verdict.keyword = "DROP")
        /\ (sql_text = UpdateGpa) => ~verdict.safe
        /\ (sql_text = SelectNames \o TrailingComment) =>
               /\ ~verdict.safe
               /\ verdict.reason = "Potential SQL injection detected"

\* a text with a denylisted keyword that also matches an injection pattern
\* has been validated
C10_Witness ==
    /\ verdict # NoVerdict
    /\ sql_text = SelectAllStudents \o StackedDrop
    /\ MatchesInjectionPattern(sql_text)
    /\ verdict.keyword = "DROP"
\* C11: the validator returns safe exactly for the texts whose trimmed
\* upper-case form starts with SELECT, whose upper-case form contains none of
\* the nine denylisted keywords, and which match no injection pattern.
C11_SafeIffSelectWithoutKeywordOrPattern ==
    verdict # NoVerdict =>
        ( verdict.safe <=>
            /\ StartsWithSelect(sql_text)
            /\ ~HasDenylistedKeyword(sql_text)
            /\ ~MatchesInjectionPattern(sql_text) )

\* a lower-case SELECT behind leading whitespace has been classified safe
C11_Witness ==
    /\ verdict # NoVerdict
    /\ sql_text = Blank \o SelectNames
    /\ verdict.safe

(***************************************************************************)
(* Properties of the schema linker.                                         *)
(***************************************************************************)
Selected == SeqToSet(optimizer.relevant_tables)

\* the tables the call matched before the junction rule and the fallback
MatchedTables ==
    LET i == optimizer.input IN
    IF i.class = "SchemaOptimizer"
    THEN SeqToSet(KeywordMatches(OptimizerTableKeywords, i.question, i.catalog))
    ELSE IF i.deps
    THEN {t \in SeqToSet(i.catalog) : i.scores[t] > SimilarityFloor}
    ELSE SeqToSet(KeywordMatches(TableKeywords, i.question, i.catalog))

\* C12: whenever a call of the linker has selected both students and
\* courses, under the keyword or the vector strategy, enrollments is in the
\* selected list and its table block is in the schema text returned.
C12_JunctionTableIncluded ==
    (/\ optimizer.pc = "returned"
     /\ "students" \in Selected
     /\ "courses" \in Selected)
    => /\ "enrollments" \in Selected
       /\ TableBlock("enrollments") \in SeqToSet(optimizer.schema_text)

\* the vector strategy selected students and courses for a question whose
\* similarity to enrollments is not above the floor, and enrollments is in
\* the text
C12_Witness ==
    /\ optimizer.pc = "returned"
    /\ optimizer.input.deps
    /\ optimizer.input.scores["enrollments"] <= SimilarityFloor
    /\ {"students", "courses"} \subseteq MatchedTables
    /\ "enrollments" \notin MatchedTables
    /\ {"students", "courses", "enrollments"} \subseteq Selected
    /\ TableBlock("enrollments") \in SeqToSet(optimizer.schema_text)

\* C13: on a non-empty catalog the selected table list is never empty, and
\* a question that matched no table (no keyword, or no similarity above the
\* floor) is answered with the full catalog.
C13_SelectionNeverEmpty ==
    (optimizer.pc = "returned" /\ optimizer.input.catalog # <<>>)
    => /\ optimizer.relevant_tables # <<>>
       /\ (MatchedTables = {}) => (optimizer.relevant_tables = optimizer.input.catalog)

(***************************************************************************)
(* Properties of the LLM service.                                           *)
(***************************************************************************)
ChunkTypesOf(s) == {s.chunks[i].type : i \in 1..Len(s.chunks)}

\* C18: when stream_sql_generation has ended, the chunks it yielded are
\* token chunks followed by exactly one complete or error chunk, whatever
\* the provider sent, a stream closed without a done line included.
C18_EndsWithOneTerminalChunk ==
    (service.mode = "stream" /\ service.pc = "closed")
    => LET n == Len(service.chunks) IN
       /\ n >= 1
       /\ service.chunks[n].type \in {"complete", "error"}
       /\ \A i \in 1..(n - 1) : service.chunks[i].type = "token"

\* C19: once the provider has timed out or failed in transport, the
\* streaming call has yielded an error chunk as its last chunk and no
\* complete chunk, the blocking call has raised and returned no SQL, and a
\* request of the endpoints whose provider failed has had no SQL text
\* validated, executed or stored and ends in an error.
C19_ProviderFailureIsAnError ==
    /\ (service.failed /\ service.mode = "stream")
         => /\ service.chunks # <<>>
            /\ service.chunks[Len(service.chunks)].type = "error"
            /\ "complete" \notin ChunkTypesOf(service)
    /\ (service.failed /\ service.mode = "blocking")
         => /\ service.raised = "Exception"
            /\ service.returned = NoneSeq
    /\ \A r \in Requests :
          requests[r].provider_failed
          => /\ requests[r].validated = <<>>
             /\ requests[r].executed = <<>>
             /\ ~requests[r].stored
             /\ requests[r].outcome = ErrorOutcome

\* the provider failed after a token chunk had been yielded
C19_Witness ==
    /\ service.mode = "stream"
    /\ service.failed
    /\ service.accumulated_sql # <<>>
    /\ Len(service.chunks) >= 2
    /\ service.chunks[1].type = "token"

(***************************************************************************)
(* Properties of the query endpoints.                                      *)
(***************************************************************************)
Range(s) == {s[i] : i \in 1..Len(s)}

\* C5: in both endpoints the executor is invoked with a SQL text only after
\* the validator classified that same text as safe; when the validator
\* classifies the generated SQL as unsafe the request ends in an error, the
\* executor is never invoked and nothing is stored in the cache.
C5_ExecutedOnlyIfValidatedSafe ==
    /\ \A r \in Requests :
         LET rq == requests[r] IN
         /\ \A sql \in Range(rq.executed) :
                sql \in Range(rq.validated) /\ IsSafeQuery(sql).safe
         /\ (\E sql \in Range(rq.validated) : ~IsSafeQuery(sql).safe) =>
                /\ rq.pc = "done"
                /\ rq.outcome = ErrorOutcome
                /\ rq.executed = <<>>
                /\ ~rq.stored
    /\ \A i \in 1..Len(exact_cache) : IsSafeQuery(exact_cache[i].sql).safe

\* a streaming request was refused for unsafe SQL and a blocking one executed
\* SQL that the validator had passed
C5_Witness ==
    \E r1, r2 \in Requests :
        /\ requests[r1].mode = "stream"
        /\ requests[r1].validated # <<>>
        /\ ~IsSafeQuery(requests[r1].validated[1]).safe
        /\ requests[r1].outcome = ErrorOutcome
        /\ requests[r2].mode = "blocking"
        /\ requests[r2].executed # <<>>

TerminalEvents(rq) ==
    {i \in 1..Len(rq.events) : rq.events[i] \in {"complete", "error"}}

\* C6: the event sequence of a streaming request holds exactly one terminal
\* event (complete or error) once the request has ended, never more than
\* one, and no event follows it; a blocking request emits no event and ends
\* with exactly one outcome, a result or an error.
C6_ExactlyOneTerminalEvent ==
    \A r \in Requests :
        LET rq == requests[r] IN
        /\ TerminalEvents(rq) \subseteq {Len(rq.events)}
        /\ (rq.mode = "stream") =>
               /\ (rq.pc = "done") <=> (TerminalEvents(rq) # {})
               /\ (rq.pc = "done") =>
                      /\ rq.events[Len(rq.events)] = "complete" <=> rq.outcome.kind = "result"
                      /\ rq.events[Len(rq.events)] = "error" <=> rq.outcome.kind = "error"
        /\ (rq.mode = "blocking") =>
               /\ rq.events = <<>>
               /\ (rq.pc = "done") <=> (rq.outcome.kind \in {"result", "error"})
               /\ (rq.pc # "done") => rq.outcome = NoOutcome

\* a streaming request ended with an error event after token, sql_complete
\* and progress events, and a blocking request ended with a result
C6_Witness ==
    \E r1, r2 \in Requests :
        /\ requests[r1].mode = "stream"
        /\ requests[r1].pc = "done"
        /\ {"token", "sql_complete", "progress"} \subseteq Range(requests[r1].events)
        /\ requests[r1].events[Len(requests[r1].events)] = "error"
        /\ requests[r2].mode = "blocking"
        /\ requests[r2].outcome.kind = "result"

\* C7: when a question is submitted again after a submission of it was
\* answered with a result, and its cache entry has not been cleared, evicted
\* or replaced before the lookup, the second request is answered with
\* cached = true and the sql and results of the first, and performs no SQL
\* generation, no validation and no database execution.
C7_SecondSubmissionIsCachedHit ==
    \A r1, r2 \in Requests :
        ( /\ r1 \in requests[r2].before
          /\ requests[r1].raw = requests[r2].raw ) =>
            /\ requests[r2].outcome.kind = "result"
            /\ requests[r2].outcome.cached
            /\ requests[r2].outcome.sql = requests[r1].outcome.sql
            /\ requests[r2].outcome.results = requests[r1].outcome.results
            /\ requests[r2].generated = 0
            /\ requests[r2].validated = <<>>
            /\ requests[r2].executed = <<>>

\* C8: a request stores in the cache only after its database execution
\* returned, and a request that ends in an error has not stored anything.
C8_NoStoreOnError ==
    \A r \in Requests :
        /\ requests[r].stored => requests[r].executed # <<>>
        /\ (requests[r].outcome = ErrorOutcome) => ~requests[r].stored

\* C17: in every request the schema linker is called only after a cache
\* lookup of that request, and a request answered from the cache has not
\* called the linker at all.
C17_LookupPrecedesLinking ==
    \A r \in Requests :
        LET steps == requests[r].steps IN
        /\ \A i \in 1..Len(steps) :
              steps[i] = "schema_link"
              => \E j \in 1..(i - 1) : steps[j] = "cache_lookup"
        /\ (requests[r].outcome.kind = "result" /\ requests[r].outcome.cached)
              => "schema_link" \notin Range(steps)

\* C20: a request that stores into an empty cache leaves exactly one entry,
\* under the key of its normalized question, holding its sql and results,
\* and is answered with that sql and those results and cached = false.
C20_StoreFromEmptyCache ==
    [][\A r \in Requests :
          (exact_cache = <<>> /\ ~requests[r].stored /\ requests'[r].stored)
          => /\ Len(exact_cache') = 1
             /\ exact_cache'[1].key =
                    NormalizeQuestion(requests'[r].raw) \o <<":">>
                        \o TakeChars(requests'[r].schema_text, KeySchemaChars)
             /\ requests'[r].outcome.kind = "result"
             /\ requests'[r].outcome.cached = FALSE
             /\ exact_cache'[1].sql = requests'[r].outcome.sql
             /\ exact_cache'[1].results = requests'[r].outcome.results]_vars

(***************************************************************************)
(* Further properties of the caches.                                        *)
(***************************************************************************)
\* C24: every id of the similarity index maps to a question that is a key
\* of the exact-match map.
C24_IndexedQuestionsAreCached ==
    deps => \A idx \in 1..Len(index) : id_to_question[idx] \in Keys(cache)

\* C22: of the stores of two requests that both missed on one question, the
\* first adds the entry of the question and removes at most one other, and
\* the second, which finds the entry present, adds and removes none: a cache
\* with MaxSize entries before the two stores has MaxSize entries after.
C22_TwoStoresOfOneQuestionKeepSize ==
    [][(last'.op = "after_response" /\ raised' = "none")
       => LET cache_key == ComputeCacheKey(last'.question, last'.schema) IN
          /\ cache_key \in Keys(exact_cache')
          /\ (cache_key \in Keys(exact_cache))
                => (Keys(exact_cache') = Keys(exact_cache))
          /\ (cache_key \notin Keys(exact_cache) /\ Len(exact_cache) = MaxSize)
                => (Len(exact_cache') = MaxSize)]_vars

(***************************************************************************)
(* Further properties of the query endpoints.                               *)
(***************************************************************************)
\* C21: a blocking request ended by an empty question or by unsafe SQL is
\* answered with a status of the 4xx class, and one ended by a failure of
\* the provider or of the database with a status outside that class.
C21_InputAndValidationErrorsAre4xx ==
    \A r \in Requests :
        LET rq == requests[r]
            user_error == \/ Strip(rq.raw) = <<>>
                          \/ rq.validated # <<>> /\ rq.executed = <<>>
        IN (rq.mode = "blocking" /\ rq.outcome = ErrorOutcome)
           => (user_error <=> rq.http_status \in 400..499)

\* C23: every submitted request eventually ends, with a result or with an
\* error, and a request that has ended takes no further step.
C23_EveryRequestEnds ==
    /\ \A r \in Requests : (requests[r].pc # "idle") ~> (requests[r].pc = "done")
    /\ [][\A r \in Requests :
             (requests[r].pc = "done") => (requests'[r] = requests[r])]_vars

\* both requests have ended, one with an error and one with a result
C23_Witness ==
    /\ \A r \in Requests : requests[r].pc = "done"
    /\ \E r \in Requests : requests[r].outcome = ErrorOutcome
    /\ \E r \in Requests : requests[r].outcome.kind = "result"

\* the stages of the request pipeline, in the order a miss goes through them
PipelineStages ==
    <<"cache_check", "schema", "generation", "validation", "execution", "cache_store">>

\* a streaming request answered with a result that was not taken from the cache
SuccessfulMiss(rq) ==
    /\ rq.mode = "stream"
    /\ rq.pc = "done"
    /\ rq.outcome # ErrorOutcome
    /\ rq.outcome # NoOutcome
    /\ ~rq.outcome.cached

\* C25: a streaming request that misses the cache and succeeds has emitted
\* one progress event for each stage it entered, cache check, schema linking,
\* generation, validation, execution and cache store, in this order, before
\* its complete event.
C25_OneProgressEventPerStage ==
    \A r \in Requests :
        SuccessfulMiss(requests[r]) =>
            /\ requests[r].stages = PipelineStages
            /\ requests[r].events[Len(requests[r].events)] = "complete"

\* the number of times step occurs in steps
Occurrences(steps, step) == Cardinality({i \in 1..Len(steps) : steps[i] = step})

\* C26: a request calls the inference provider at most once and the database
\* executor at most once, for the SQL it generated and validated; once a
\* stage of a request has failed, no stage of that request runs again.
C26_NoStageRunsTwice ==
    [][\A r \in Requests :
          /\ Occurrences(requests'[r].steps, "generate") <= 1
          /\ Len(requests'[r].executed) <= 1
          /\ requests'[r].executed # <<>>
             => requests'[r].executed = requests'[r].validated
          /\ requests[r].outcome = ErrorOutcome
             => /\ requests'[r].steps = requests[r].steps
                /\ requests'[r].validated = requests[r].validated
                /\ requests'[r].executed = requests[r].executed
                /\ requests'[r].stored = requests[r].stored]_vars

\* two requests that called the provider: one failed in execution, the
\* other one in generation
C26_Witness ==
    \E r1, r2 \in Requests :
        /\ requests[r1].outcome = ErrorOutcome
        /\ requests[r1].executed # <<>>
        /\ Occurrences(requests[r1].steps, "generate") = 1
        /\ requests[r2].outcome = ErrorOutcome
        /\ requests[r2].provider_failed
        /\ Occurrences(requests[r2].steps, "generate") = 1

(***************************************************************************)
(* Further properties of the provider client.                              *)
(***************************************************************************)
\* the tokens of the first n lines of a provider answer, in arrival order
RECURSIVE ReceivedTokens(_, _)
ReceivedTokens(lines, n) ==
    IF n = 0 THEN <<>>
    ELSE LET line == lines[n] IN
         IF line.json = "object" /\ line.response # NoResponse
         THEN Append(ReceivedTokens(lines, n - 1), line.response)
         ELSE ReceivedTokens(lines, n - 1)

\* the concatenation of the first k of the tokens
RECURSIVE ConcatFirst(_, _)
ConcatFirst(tokens, k) ==
    IF k = 0 THEN <<>> ELSE ConcatFirst(tokens, k - 1) \o tokens[k]

IsTokenChunk(chunk) == chunk.type = "token"

\* C27: in a streaming call the k-th token chunk carries the k-th token of
\* the provider and, as accumulated text, the concatenation of the first k
\* tokens in arrival order; the SQL of the complete chunk is the cleaning
\* function applied to the concatenation of all tokens received up to and
\* including the line that reported completion.
C27_AccumulatedIsPrefixConcatenation ==
    service.mode = "stream" =>
        LET tokens == ReceivedTokens(service.lines, service.read)
            token_chunks == SelectSeq(service.chunks, IsTokenChunk)
        IN  /\ Len(token_chunks) = Len(tokens)
            /\ \A k \in 1..Len(token_chunks) :
                  /\ token_chunks[k].content = tokens[k]
                  /\ token_chunks[k].accumulated = ConcatFirst(tokens, k)
            /\ \A i \in 1..Len(service.chunks) :
                  service.chunks[i].type = "complete"
                  => service.chunks[i].sql = CleanSql(ConcatFirst(tokens, Len(tokens)))

\* a call that yielded two token chunks and a complete chunk whose SQL is
\* not the accumulated text
C27_Witness ==
    /\ service.mode = "stream"
    /\ service.pc = "closed"
    /\ Len(service.chunks) = 3
    /\ service.chunks[2].type = "token"
    /\ service.chunks[2].accumulated # service.chunks[2].content
    /\ service.chunks[3].type = "complete"
    /\ service.chunks[3].sql # service.chunks[2].accumulated

\* sub occurs in s
HasFence(s) == Contains(s, CodeFence)

\* s has two whitespace characters in a row
HasWhitespaceRun(s) ==
    \E i \in 1..(Len(s) - 1) : s[i] \in Whitespace /\ s[i + 1] \in Whitespace

\* C28: the text _clean_sql returns holds no code-fence marker, neither
\* starts nor ends with whitespace, holds no two whitespace characters in a
\* row and does not end with the statement terminator; cleaning it once more
\* returns it unchanged.
C28_CleanedTextIsNormalAndFixed ==
    (service.mode = "clean" /\ service.pc # "called") =>
        LET cleaned == service.returned IN
        /\ ~HasFence(cleaned)
        /\ cleaned # <<>> =>
              /\ cleaned[1] \notin Whitespace
              /\ cleaned[Len(cleaned)] \notin Whitespace
              /\ cleaned[Len(cleaned)] # ";"
        /\ ~HasWhitespaceRun(cleaned)
        /\ CleanSql(cleaned) = cleaned
        /\ service.pc = "closed" => service.returned = service.accumulated_sql

(***************************************************************************)
(* Further properties of the schema linker.                                *)
(***************************************************************************)
\* a call of the vector strategy, with the embedding model loaded, returned
VectorCallReturned ==
    /\ optimizer.pc = "returned"
    /\ optimizer.input.class = "VectorSchemaOptimizer"
    /\ optimizer.input.deps

\* C29: before the junction table is added, the vector strategy has selected
\* at most K = 4 tables of the catalog, each with a similarity to the
\* question at or above the floor 0.3, in descending order of similarity,
\* and no table of the catalog that is above the floor and not selected has
\* a higher similarity than a selected one.
C29_TopTablesAboveFloor ==
    VectorCallReturned =>
        LET selected == optimizer.top_tables
            similarity == optimizer.input.scores
            catalog == SeqToSet(optimizer.full_schema)
        IN  /\ Len(selected) <= TopK
            /\ SeqToSet(selected) \subseteq catalog
            /\ Cardinality(SeqToSet(selected)) = Len(selected)
            /\ \A i \in 1..Len(selected) : similarity[selected[i]] >= SimilarityFloor
            /\ \A i, j \in 1..Len(selected) :
                  i < j => similarity[selected[i]] >= similarity[selected[j]]
            /\ \A t \in catalog \ SeqToSet(selected) :
                  similarity[t] > SimilarityFloor
                  => \A i \in 1..Len(selected) : similarity[t] <= similarity[selected[i]]

\* a call that cut the selection at K tables of two different similarities,
\* leaving out a table above the floor, on a catalog with a table at the
\* floor
C29_Witness ==
    /\ VectorCallReturned
    /\ Len(optimizer.top_tables) = TopK
    /\ optimizer.input.scores[optimizer.top_tables[1]]
         > optimizer.input.scores[optimizer.top_tables[TopK]]
    /\ \E t \in SeqToSet(optimizer.full_schema) \ SeqToSet(optimizer.top_tables) :
          optimizer.input.scores[t] > SimilarityFloor
    /\ \E t \in SeqToSet(optimizer.full_schema) :
          optimizer.input.scores[t] = SimilarityFloor

\* the two tables each relationship hint joins
HintEndpoints ==
    [students_departments |-> {"students", "departments"},
     students_hostels |-> {"students", "hostels"},
     courses_departments |-> {"courses", "departments"},
     enrollments_student |-> {"enrollments", "students"},
     enrollments_course |-> {"enrollments", "courses"},
     attendance_student |-> {"attendance", "students"},
     attendance_course |-> {"attendance", "courses"},
     grades_student |-> {"grades", "students"},
     grades_course |-> {"grades", "courses"},
     placements_student |-> {"placements", "students"}]

\* C30: the schema text a linker returns holds the relationship hint
\* A.col -> B.id if and only if both tables A and B are among the selected
\* tables.
C30_HintIffBothEndpointsSelected ==
    optimizer.pc = "returned" =>
        \A h \in DOMAIN Hint :
            (\E i \in 1..Len(optimizer.schema_text) : optimizer.schema_text[i] = Hint[h])
            <=> HintEndpoints[h] \subseteq SeqToSet(optimizer.relevant_tables)

\* the tables a call on input i selects, and the text it returns, on a
\* linker that has not loaded a schema yet
SelectionOf(i) ==
    IF i.class = "SchemaOptimizer"
    THEN AllTablesIfNone(
             WithEnrollments(KeywordMatches(OptimizerTableKeywords, i.question, i.catalog)),
             i.catalog)
    ELSE IF i.deps THEN GetRelevantTablesVector(i.scores, i.catalog)
    ELSE GetRelevantTablesKeyword(i.question, i.catalog)

RenderingOf(i) ==
    IF i.class = "SchemaOptimizer"
    THEN OptimizerSchemaText(SelectionOf(i), i.catalog)
    ELSE VectorSchemaText(SelectionOf(i), i.catalog)

\* the questions put to the same linker on the same catalog as input i
SameLinker(i) ==
    {o \in LinkerInputs : /\ o.class = i.class
                          /\ o.deps = i.deps
                          /\ o.catalog = i.catalog}

\* C31: on a fixed catalog, every question for which a linker selects the
\* same set of tables as for the question of the returned call gets the same
\* schema text, character for character, with the tables in the same order.
C31_SameTablesSameText ==
    optimizer.pc = "returned" =>
        \A other \in SameLinker(optimizer.input) :
            SeqToSet(SelectionOf(other)) = SeqToSet(optimizer.relevant_tables)
            => /\ SelectionOf(other) = optimizer.relevant_tables
               /\ RenderingOf(other) = optimizer.schema_text

\* C32: once a load of the schema has returned, a later load makes no
\* database query and leaves the table-to-columns mapping as it is, on every
\* catalog, the one of a database without tables included.
C32_LaterLoadIsNoOp ==
    [][(optimizer.pc = "returned" /\ optimizer'.pc = "reloaded")
       => /\ optimizer'.queries = optimizer.queries
          /\ optimizer'.full_schema = optimizer.full_schema]_vars

(***************************************************************************)
(* Properties of the endpoints with callers that disconnect.               *)
(***************************************************************************)
\* request r takes its last step, with an outcome for its caller
Completes(r) ==
    /\ requests[r].pc # "done"
    /\ requests'[r].pc = "done"
    /\ requests'[r].outcome # AbandonedOutcome

EmptyQuestion(rq) == rq.mode # "none" /\ Strip(rq.raw) = <<>>

\* C34: a request whose question is empty after trimming ends in an error
\* in its first step, before the cache check: it has made no cache lookup,
\* no schema linking, no provider call and no execution, its step leaves the
\* cache entries and the hit and miss counters as they were, and in
\* streaming mode its only event is the error event.
C34_EmptyQuestionEndsAtOnce ==
    [][\A r \in Requests :
          (EmptyQuestion(requests[r]) /\ requests'[r] # requests[r])
          => /\ requests[r].pc = "start"
             /\ requests'[r].pc = "done"
             /\ requests'[r].outcome = ErrorOutcome
             /\ requests'[r].steps = <<>>
             /\ requests'[r].stages = <<>>
             /\ requests'[r].generated = 0
             /\ requests'[r].validated = <<>>
             /\ requests'[r].executed = <<>>
             /\ ~requests'[r].stored
             /\ <<exact_cache, hits, misses, total_time_saved>>'
                  = <<exact_cache, hits, misses, total_time_saved>>
             /\ requests[r].mode = "stream" => requests'[r].events = <<"error">>]_vars

\* a streaming request with a blank question that has ended, next to a
\* request that was answered
C34_Witness ==
    \E r1, r2 \in Requests :
        /\ requests[r1].mode = "stream"
        /\ EmptyQuestion(requests[r1])
        /\ requests[r1].pc = "done"
        /\ requests[r1].events = <<"error">>
        /\ requests[r2].outcome \notin {NoOutcome, ErrorOutcome}
        /\ exact_cache # <<>>

(***************************************************************************)
(* Properties of lookups and of stores under a key that is present.        *)
(***************************************************************************)
\* C35: the exact-match outcome of a lookup depends on the lower-cased,
\* stripped question alone: while an entry stored for a question is in the
\* cache, a lookup of the question is an exact hit whatever schema context
\* is passed to it.
C35_ExactHitWhateverTheSchema ==
    [][(last'.op = "before_request"
        /\ \E schema \in Schemas :
              ComputeCacheKey(last'.question, schema) \in Keys(exact_cache))
       => ret' # NoneRet]_vars

\* C36: a lookup (SemanticCache.get, CachingMiddleware.before_request)
\* leaves the set of cached keys and the sql and results stored under every
\* key as they were: the stored entries are the same records before and
\* after, only their order (and the counters of the middleware) may change,
\* the index and the id mapping are untouched, and no stored entry carries
\* a field that belongs to a returned hit (cache_type "exact" or
\* "semantic", similarity_score, execution_time).
C36_LookupKeepsStoredEntries ==
    [][(last'.op \in {"get", "before_request"})
       => /\ Range(cache') = Range(cache)
          /\ Len(cache') = Len(cache)
          /\ Range(exact_cache') = Range(exact_cache)
          /\ Len(exact_cache') = Len(exact_cache)
          /\ UNCHANGED <<index, id_to_question, current_id>>
          /\ \A e \in Range(cache') :
               /\ e.cache_type = "stored"
               /\ DOMAIN e \cap {"similarity_score", "execution_time"} = {}
          /\ \A e \in Range(exact_cache') :
               DOMAIN e \cap {"cached", "cache_type", "similarity_score",
                              "execution_time"} = {}]_vars

\* a lookup hit on a full cache of the middleware has moved its entry to
\* the most recent place
C36_Witness ==
    /\ last.op = "before_request"
    /\ ret # NoneRet
    /\ Len(exact_cache) = MaxSize
    /\ exact_cache[MaxSize].key = ComputeCacheKey(last.question, last.schema)
    /\ hits >= 1

(***************************************************************************)
(* Properties of the ids of the similarity index.                           *)
(***************************************************************************)
\* the index, the id mapping and the next id agree: as many vectors as ids
\* allocated and as mappings, and the vector added under id i (position
\* i + 1 of the sequences) is the embedding of the question id i maps to
IndexAgrees ==
    deps => /\ Len(index) = current_id
            /\ Len(id_to_question) = current_id
            /\ \A i \in 1..Len(index) :
                 index[i] = GetEmbedding(id_to_question[i])

\* C37: with embeddings available the number of vectors in the index
\* equals the next id and the number of id mappings in every state; a store
\* allocates exactly one id, the next one counting from 0, and maps it to
\* the normalized question whose embedding it appends; no other call but a
\* clear, which starts again at 0, changes the ids; the vector at position
\* i is the embedding of the question mapped from id i.
C37_IndexIdsAndMappingsAgree ==
    /\ []IndexAgrees
    /\ [][/\ (deps /\ last'.op = "set" /\ raised' = "none")
             => /\ current_id' = current_id + 1
                /\ id_to_question' =
                     Append(id_to_question, NormalizeQuestion(last'.question))
                /\ index' = Append(index, GetEmbedding(last'.question))
          /\ (deps /\ last'.op = "clear")
             => (current_id' = 0 /\ index' = <<>> /\ id_to_question' = <<>>)
          /\ (deps /\ last'.op \notin {"set", "clear"})
             => UNCHANGED <<index, id_to_question, current_id>>]_vars

\* a store on a cache that has evicted an entry: more ids than entries
C37_Witness ==
    /\ deps
    /\ last.op = "set"
    /\ current_id = MaxIndex
    /\ Len(index) = MaxIndex
    /\ Len(cache) = MaxSize

(***************************************************************************)
(* Properties of a store under a key that is present.                       *)
(***************************************************************************)
\* a store into map `before` giving `after` under key k, present before it,
\* replaced the sql and the results of k and kept every other entry
ReplacedOnly(before, after, k, sql, results) ==
    (k \in Keys(before))
    => /\ Keys(after) = Keys(before)
       /\ Len(after) = Len(before)
       /\ Lookup(after, k).sql = sql
       /\ Lookup(after, k).results = results
       /\ \A j \in Keys(before) \ {k} : Lookup(after, j) = Lookup(before, j)

\* C38: a store (SemanticCache.set, SimpleCache.set,
\* CachingMiddleware.after_response) of a question whose key is present
\* replaces the sql and the results of that key, removes no other entry and
\* leaves the size of the cache as it was, also when the cache is full.
C38_StoreUnderPresentKeyReplaces ==
    [][/\ (last'.op = "set" /\ raised' = "none")
          => ReplacedOnly(cache, cache', NormalizeQuestion(last'.question),
                          last'.sql, last'.results)
       /\ (last'.op = "simple_set" /\ raised' = "none")
          => ReplacedOnly(simple_cache, simple_cache',
                          NormalizeQuestion(last'.question),
                          last'.sql, last'.results)
       /\ (last'.op = "after_response" /\ raised' = "none")
          => ReplacedOnly(exact_cache, exact_cache',
                          ComputeCacheKey(last'.question, last'.schema),
                          last'.sql, last'.results)]_vars
====
